---- MODULE Spec2Model ----
(***************************************************************************)
(* Model of the qPCR calling engine of covidhub                            *)
(* (code/qpcr_processing/protocol.py): the gene-threshold tables of the    *)
(* four registered protocols, the well classifier (call_ct_value,          *)
(* call_well, check_control) and the plate contamination scanner           *)
(* (compare_wells, check_square, flag_contamination).                      *)
(*                                                                         *)
(* Representation.                                                         *)
(*  - A Cq value is a record [kind, nan, num, str]: a Python float (a      *)
(*    number, or NaN when nan is TRUE), a str, or None.  Numbers are whole *)
(*    cycles; every cutoff of the source is a whole number too.            *)
(*  - An Optional cutoff is a set with at most one element: {} is None.    *)
(*  - A Python bool that may instead be an exception is the string "True", *)
(*    "False" or the exception's name.                                     *)
(*  - A values map is a dict: the function from the genes it has a key for  *)
(*    (values) together with the insertion order of its keys (key_order).  *)
(*  - A well id is <<row, col>>: row = ord(well_id[:1]) - ord("A") + 1,    *)
(*    col = int(well_id[1:]).                                              *)
(***************************************************************************)
EXTENDS Integers, Sequences, FiniteSets, TLC

VARIABLES
    protocol,      \* name of the Protocol instance the operation is called on
    values,        \* classifier input: gene -> Cq value of one well
    key_order,     \* classifier input: insertion order of the keys of a values map
    op,            \* operation applied to the input ("none" before the call)
    arg_gene,      \* call_ct_value: the gene argument g
    arg_type,      \* call_ct_value / check_control: well_type / control_type
    arg_name,      \* get_protocol: the protocol_name argument
    result,        \* what the operation returned or raised
    well_mapping,  \* scanner: well id -> WellResults
    order,         \* scanner: iteration order of well_mapping.items()
    phase,         \* scanner: "start" before flag_contamination, "done" after;
                   \* "squared" after a single check_square call
    before,        \* scanner: well_mapping as flag_contamination received it
    after_first,   \* scanner: well_mapping after the first check_square call
    arg_cutoff,    \* compare_wells / check_square: the cutoff argument
    arg_radius,    \* check_square: the radius argument
    arg_flag,      \* check_square: the flag argument
    data,          \* local_processing: well id -> values map of the well
    control_wells, \* local_processing / controls update: well id -> ControlType,
                   \* or None
    accession_data,    \* controls update: well id -> cell of the plate layout
    accession_before,  \* controls update: accession_data as it was received
    marker_folder,     \* Drive loop: barcodes that have a marker file
    completed_barcodes,\* Drive loop: marker names read when the run started
    barcode_files,     \* Drive loop: barcode -> all_files of its log entries
    run,               \* Drive loop: runs started so far
    barcodes_to_process, \* Drive loop: barcodes of the run not yet visited
    barcode,           \* Drive loop: barcode in the try block ("none" outside)
    step,              \* Drive loop: index of the next step of the try block
    done_steps,        \* Drive loop: steps completed for barcode in this run
    visited,           \* Drive loop: barcodes the loop has reached in this run
    failed,            \* Drive loop: barcodes skipped or failed in this run
    marker_steps       \* Drive loop: barcode -> steps done when its marker was written

vars == <<protocol, values, key_order, op, arg_gene, arg_type, arg_name, result,
          well_mapping, order, phase, before, after_first, arg_cutoff,
          arg_radius, arg_flag, data, control_wells, accession_data,
          accession_before, marker_folder, completed_barcodes, barcode_files,
          run, barcodes_to_process, barcode, step, done_steps, visited,
          failed, marker_steps>>

classVars == <<protocol, values, key_order, op, arg_gene, arg_type, arg_name,
              result>>
scanVars == <<well_mapping, order, phase, before, after_first, arg_cutoff,
              arg_radius, arg_flag>>
plateVars == <<data, control_wells, accession_data, accession_before>>
driveVars == <<marker_folder, completed_barcodes, barcode_files, run,
               barcodes_to_process, barcode, step, done_steps, visited, failed,
               marker_steps>>

(***************************************************************************)
(* Bounds of the model.                                                    *)
(***************************************************************************)
\* Cq numbers of the classifier inputs are the whole cycles 35..MaxCq: below,
\* at and above each of the cutoffs 36, 38 and 40.
MaxCq == 41

\* A plate of the scanner holds a well at A1 and a second well up to
\* MaxRowGap rows and MaxColGap columns away: inside radius 1, inside radius 3
\* only, and outside both.
MaxRowGap == 1
MaxColGap == 4

(***************************************************************************)
(* Enumerations (covidhub/constants).                                      *)
(***************************************************************************)
POS == "Pos"
POS_REVIEW == "Positive, review required"
POS_CLUSTER == "Review needed: Positive by cluster"
POS_HOTWELL == "Review needed: Positive by hot well"
NEG == "Neg"
INV == "Inv"
IND == "Ind"
PASS == "Pass"
FAIL == "Fail"
\* wording used for pos_cluster in V2
V2_CLUSTER == "Possible cluster review needed"

Call ==
    {POS, POS_REVIEW, POS_CLUSTER, POS_HOTWELL, NEG, INV, IND, PASS, FAIL,
     V2_CLUSTER}

\* is_positive with Indeterminate counted as a positive call.
is_positive_or_indeterminate(c) ==
    c \in {POS, POS_REVIEW, POS_CLUSTER, POS_HOTWELL, IND}

\* is_positive without the two calls the scanner escalates to.
is_positive_not_escalated(c) == c \in {POS, POS_REVIEW}

\* Call.is_positive
is_positive(c) == c \in {POS, POS_REVIEW, POS_CLUSTER, POS_HOTWELL}

SAMPLE == "sample"
NTC == "NTC"
PC == "PC"
PBS == "PBS"
HRC == "HRC"

ControlType == {NTC, PC, PBS, HRC}

\* Exceptions an operation can end in.
Errors == {"TypeError", "KeyError", "ValueError"}

(***************************************************************************)
(* Cq values.                                                              *)
(***************************************************************************)
Num(n) == [kind |-> "float", nan |-> FALSE, num |-> n, str |-> ""]
NaN == [kind |-> "float", nan |-> TRUE, num |-> 0, str |-> ""]
Str(s) == [kind |-> "str", nan |-> FALSE, num |-> 0, str |-> s]
None == [kind |-> "none", nan |-> FALSE, num |-> 0, str |-> ""]

\* Optional[float] cutoffs.
NoCutoff == {}
Cutoff(x) == {x}

(***************************************************************************)
(* Gene-threshold tables.                                                  *)
(***************************************************************************)
cq_thresholds(sample, pc, ntc, hrc, pbs) ==
    (SAMPLE :> sample) @@ (PC :> pc) @@ (NTC :> ntc) @@ (HRC :> hrc) @@ (PBS :> pbs)

SOP_V1 == "SOP-V1"
SOP_V2 == "SOP-V2"
UDGprotocol == "UDGprotocol"
SOP_V3 == "SOP-V3"

Protocols == {SOP_V1, SOP_V2, UDGprotocol, SOP_V3}
BaseProtocols == {SOP_V1, SOP_V2, UDGprotocol}

virus_genes(p) ==
    IF p = SOP_V1
    THEN ("RdRp" :> cq_thresholds(Cutoff(40), Cutoff(40), NoCutoff, NoCutoff, NoCutoff))
      @@ ("E" :> cq_thresholds(Cutoff(40), Cutoff(40), NoCutoff, NoCutoff, NoCutoff))
    ELSE ("N" :> cq_thresholds(Cutoff(40), Cutoff(38), NoCutoff, NoCutoff, NoCutoff))
      @@ ("E" :> cq_thresholds(Cutoff(40), Cutoff(38), NoCutoff, NoCutoff, NoCutoff))

\* control_genes with SOP_V3 keeping the sample cutoff 36 of SOP_V2.
control_genes_v3_sample_cutoff(p) ==
    IF p = SOP_V1
    THEN "RNAse P" :> cq_thresholds(Cutoff(40), Cutoff(40), NoCutoff, Cutoff(40), NoCutoff)
    ELSE "RNAse P" :> cq_thresholds(Cutoff(36), Cutoff(38), NoCutoff, Cutoff(36), NoCutoff)

control_genes(p) ==
    IF p = SOP_V1
    THEN "RNAse P" :> cq_thresholds(Cutoff(40), Cutoff(40), NoCutoff, Cutoff(40), NoCutoff)
    ELSE IF p = SOP_V3
    THEN "RNAse P" :> cq_thresholds(NoCutoff, Cutoff(38), NoCutoff, Cutoff(36), NoCutoff)
    ELSE "RNAse P" :> cq_thresholds(Cutoff(36), Cutoff(38), NoCutoff, Cutoff(36), NoCutoff)

gene_cutoffs(p) == virus_genes(p) @@ control_genes(p)

\* Protocol.name: a Protocol instance is denoted by its name.
name(p) == p

\* get_protocol with the last registered protocol as the default.
get_protocol_default(protocol_name) ==
    IF protocol_name = name(SOP_V1) THEN SOP_V1
    ELSE IF protocol_name = name(SOP_V2) THEN SOP_V2
    ELSE IF protocol_name = name(UDGprotocol) THEN UDGprotocol
    ELSE SOP_V3

\* get_protocol
get_protocol(protocol_name) ==
    IF protocol_name = name(SOP_V1) THEN SOP_V1
    ELSE IF protocol_name = name(SOP_V2) THEN SOP_V2
    ELSE IF protocol_name = name(UDGprotocol) THEN UDGprotocol
    ELSE IF protocol_name = name(SOP_V3) THEN SOP_V3
    ELSE "ValueError"

\* Every gene name of the model, in the order of the protocol tables
\* (gene_list).
GeneOrder == <<"RdRp", "N", "E", "RNAse P">>
Genes == {GeneOrder[i] : i \in 1..Len(GeneOrder)}

(***************************************************************************)
(* Well classifier.                                                        *)
(***************************************************************************)
\* isnan with every value that is no number counted as not detected.
isnan_other_not_detected(v) ==
    IF v.kind = "float" THEN (IF v.nan THEN "True" ELSE "False") ELSE "True"

\* Protocol.isnan: v == "NaN" or v == "" or math.isnan(v); math.isnan raises
\* TypeError for any other str and for None.
isnan(v) ==
    IF v.kind = "str" /\ v.str \in {"NaN", ""} THEN "True"
    ELSE IF v.kind = "float" THEN (IF v.nan THEN "True" ELSE "False")
    ELSE "TypeError"

\* call_ct_value with the cutoff itself passing (> for >=).
call_ct_value_cutoff_passes(p, g, v, well_type) ==
    IF isnan(v) = "TypeError" THEN "TypeError"
    ELSE IF isnan(v) = "True" THEN "False"
    ELSE IF g \notin DOMAIN gene_cutoffs(p) THEN "False"
    ELSE IF well_type \notin DOMAIN gene_cutoffs(p)[g] THEN "KeyError"
    ELSE IF gene_cutoffs(p)[g][well_type] = NoCutoff THEN "True"
    ELSE LET cutoff == CHOOSE c \in gene_cutoffs(p)[g][well_type] : TRUE
         IN  IF v.num > cutoff THEN "False" ELSE "True"

\* Protocol.call_ct_value; gene_cutoffs[g][well_type] raises KeyError for a
\* well_type that is no key of the threshold table.
call_ct_value(p, g, v, well_type) ==
    IF isnan(v) = "TypeError" THEN "TypeError"
    ELSE IF isnan(v) = "True" THEN "False"
    ELSE IF g \notin DOMAIN gene_cutoffs(p) THEN "False"
    ELSE IF well_type \notin DOMAIN gene_cutoffs(p)[g] THEN "KeyError"
    ELSE IF gene_cutoffs(p)[g][well_type] = NoCutoff THEN "True"
    ELSE LET cutoff == CHOOSE c \in gene_cutoffs(p)[g][well_type] : TRUE
         IN  IF v.num >= cutoff THEN "False"
             ELSE IF v.num < cutoff THEN "True"
             ELSE "ValueError"

\* values.items(): the keys of the values map in the insertion order of the
\* dict.
items(vals) == SelectSeq(key_order, LAMBDA g : g \in DOMAIN vals)

\* The exception a comprehension over values.items() ends in: the one raised
\* for the first item that raises, "none" when no item raises.
RECURSIVE FirstRaise(_)
FirstRaise(outcomes) ==
    IF outcomes = << >> THEN "none"
    ELSE IF Head(outcomes) \in Errors THEN Head(outcomes)
    ELSE FirstRaise(Tail(outcomes))

\* {g for g, v in values.items() if not self.isnan(v)}
detected_genes(vals) == {g \in DOMAIN vals : isnan(vals[g]) = "False"}
detected_raise(vals) ==
    FirstRaise([i \in 1..Len(items(vals)) |-> isnan(vals[items(vals)[i]])])

\* {g for g, v in values.items() if self.call_ct_value(g, v, well_type)}
called_genes(p, vals, well_type) ==
    {g \in DOMAIN vals : call_ct_value(p, g, vals[g], well_type) = "True"}
called_raise(p, vals, well_type) ==
    FirstRaise([i \in 1..Len(items(vals)) |->
                   call_ct_value(p, items(vals)[i], vals[items(vals)[i]], well_type)])

\* call_well with the control genes only detected, not called, for Negative.
Protocol_call_well_detected_control(p, vals) ==
    IF detected_raise(vals) # "none" THEN detected_raise(vals)
    ELSE IF called_raise(p, vals, SAMPLE) # "none" THEN called_raise(p, vals, SAMPLE)
    ELSE IF detected_genes(vals) \cap DOMAIN virus_genes(p) # {}
    THEN IF DOMAIN virus_genes(p) \subseteq called_genes(p, vals, SAMPLE)
         THEN POS
         ELSE IND
    ELSE IF detected_genes(vals) \cap DOMAIN gene_cutoffs(p) = DOMAIN control_genes(p)
         THEN NEG
         ELSE INV

\* call_well with one called virus gene enough for Positive.
Protocol_call_well_any_virus(p, vals) ==
    IF detected_raise(vals) # "none" THEN detected_raise(vals)
    ELSE IF called_raise(p, vals, SAMPLE) # "none" THEN called_raise(p, vals, SAMPLE)
    ELSE IF detected_genes(vals) \cap DOMAIN virus_genes(p) # {}
    THEN IF DOMAIN virus_genes(p) \cap called_genes(p, vals, SAMPLE) # {}
         THEN POS
         ELSE IND
    ELSE IF called_genes(p, vals, SAMPLE) = DOMAIN control_genes(p)
         THEN NEG
         ELSE INV

\* call_well with any detected gene, of the protocol or not, counting as a
\* detected virus gene.
Protocol_call_well_any_detected(p, vals) ==
    IF detected_raise(vals) # "none" THEN detected_raise(vals)
    ELSE IF called_raise(p, vals, SAMPLE) # "none" THEN called_raise(p, vals, SAMPLE)
    ELSE IF detected_genes(vals) \ DOMAIN control_genes(p) # {}
    THEN IF DOMAIN virus_genes(p) \subseteq called_genes(p, vals, SAMPLE)
         THEN POS
         ELSE IND
    ELSE IF called_genes(p, vals, SAMPLE) = DOMAIN control_genes(p)
         THEN NEG
         ELSE INV

\* call_well with Positive requiring every gene of the protocol, the control
\* genes included, to be called.
Protocol_call_well_needs_control(p, vals) ==
    IF detected_raise(vals) # "none" THEN detected_raise(vals)
    ELSE IF called_raise(p, vals, SAMPLE) # "none" THEN called_raise(p, vals, SAMPLE)
    ELSE IF detected_genes(vals) \cap DOMAIN virus_genes(p) # {}
    THEN IF DOMAIN virus_genes(p) \cup DOMAIN control_genes(p)
                \subseteq called_genes(p, vals, SAMPLE)
         THEN POS
         ELSE IND
    ELSE IF called_genes(p, vals, SAMPLE) = DOMAIN control_genes(p)
         THEN NEG
         ELSE INV

\* Protocol.call_well
Protocol_call_well(p, vals) ==
    IF detected_raise(vals) # "none" THEN detected_raise(vals)
    ELSE IF called_raise(p, vals, SAMPLE) # "none" THEN called_raise(p, vals, SAMPLE)
    ELSE IF detected_genes(vals) \cap DOMAIN virus_genes(p) # {}
    THEN IF DOMAIN virus_genes(p) \subseteq called_genes(p, vals, SAMPLE)
         THEN POS
         ELSE IND
    ELSE IF called_genes(p, vals, SAMPLE) = DOMAIN control_genes(p)
         THEN NEG
         ELSE INV

\* V3 call_well without the override of Indeterminate.
V3Protocol_call_well_no_review(p, vals) == Protocol_call_well(p, vals)

\* V3Protocol.call_well
V3Protocol_call_well(p, vals) ==
    LET super_call == Protocol_call_well(p, vals)
    IN  IF super_call = IND THEN POS_REVIEW ELSE super_call

\* protocol.call_well(values): SOP_V3 is the one V3Protocol instance.
call_well(p, vals) ==
    IF p = SOP_V3 THEN V3Protocol_call_well(p, vals) ELSE Protocol_call_well(p, vals)

\* check_control with a blank passing when no virus gene is called.
check_control_blank_virus_only(p, vals, control_type) ==
    IF called_raise(p, vals, control_type) # "none"
    THEN called_raise(p, vals, control_type)
    ELSE IF control_type \in {NTC, PBS}
    THEN IF called_genes(p, vals, control_type) \cap DOMAIN virus_genes(p) = {} THEN PASS ELSE FAIL
    ELSE IF control_type = PC
    THEN IF called_genes(p, vals, control_type) = DOMAIN gene_cutoffs(p)
         THEN PASS ELSE FAIL
    ELSE IF control_type = HRC
    THEN IF called_genes(p, vals, control_type) = DOMAIN control_genes(p)
         THEN PASS ELSE FAIL
    ELSE "ValueError"

\* check_control with the positive control passing on the virus genes alone.
check_control_pc_virus_only(p, vals, control_type) ==
    IF called_raise(p, vals, control_type) # "none"
    THEN called_raise(p, vals, control_type)
    ELSE IF control_type \in {NTC, PBS}
    THEN IF Cardinality(called_genes(p, vals, control_type)) = 0 THEN PASS ELSE FAIL
    ELSE IF control_type = PC
    THEN IF DOMAIN virus_genes(p) \subseteq called_genes(p, vals, control_type)
         THEN PASS ELSE FAIL
    ELSE IF control_type = HRC
    THEN IF called_genes(p, vals, control_type) = DOMAIN control_genes(p)
         THEN PASS ELSE FAIL
    ELSE "ValueError"

\* check_control with the human control passing whenever the control genes are called.
check_control_hrc_superset(p, vals, control_type) ==
    IF called_raise(p, vals, control_type) # "none"
    THEN called_raise(p, vals, control_type)
    ELSE IF control_type \in {NTC, PBS}
    THEN IF Cardinality(called_genes(p, vals, control_type)) = 0 THEN PASS ELSE FAIL
    ELSE IF control_type = PC
    THEN IF called_genes(p, vals, control_type) = DOMAIN gene_cutoffs(p)
         THEN PASS ELSE FAIL
    ELSE IF control_type = HRC
    THEN IF DOMAIN control_genes(p) \subseteq called_genes(p, vals, control_type)
         THEN PASS ELSE FAIL
    ELSE "ValueError"

\* check_control returning the initial status for an unrecognized control type.
check_control_unknown_fails(p, vals, control_type) ==
    IF called_raise(p, vals, control_type) # "none"
    THEN called_raise(p, vals, control_type)
    ELSE IF control_type \in {NTC, PBS}
    THEN IF Cardinality(called_genes(p, vals, control_type)) = 0 THEN PASS ELSE FAIL
    ELSE IF control_type = PC
    THEN IF called_genes(p, vals, control_type) = DOMAIN gene_cutoffs(p)
         THEN PASS ELSE FAIL
    ELSE IF control_type = HRC
    THEN IF called_genes(p, vals, control_type) = DOMAIN control_genes(p)
         THEN PASS ELSE FAIL
    ELSE FAIL

\* Protocol.check_control
check_control(p, vals, control_type) ==
    IF called_raise(p, vals, control_type) # "none"
    THEN called_raise(p, vals, control_type)
    ELSE IF control_type \in {NTC, PBS}
    THEN IF Cardinality(called_genes(p, vals, control_type)) = 0 THEN PASS ELSE FAIL
    ELSE IF control_type = PC
    THEN IF called_genes(p, vals, control_type) = DOMAIN gene_cutoffs(p)
         THEN PASS ELSE FAIL
    ELSE IF control_type = HRC
    THEN IF called_genes(p, vals, control_type) = DOMAIN control_genes(p)
         THEN PASS ELSE FAIL
    ELSE "ValueError"

(***************************************************************************)
(* Inputs of the classifier.                                               *)
(***************************************************************************)
CqNumbers == {Num(n) : n \in 35..MaxCq}
\* The three ways the pipeline writes "not detected".
NotDetected == {NaN, Str("NaN"), Str("")}
\* Values that are neither a number nor a "not detected" sentinel.
Malformed == {None, Str("abc")}

\* A gene of no protocol's wiring is given fewer values: it is ignored.
GeneValues(p, g) ==
    IF g \in DOMAIN gene_cutoffs(p) THEN CqNumbers \cup NotDetected
    ELSE {NaN, Num(35)}

\* Every values map: each gene is absent or carries one of its values.
ValuesMaps(p) ==
    UNION {{f \in [S -> CqNumbers \cup NotDetected] :
               \A g \in S : f[g] \in GeneValues(p, g)} : S \in SUBSET Genes}

\* Control types check_control is called with that are no ControlType member:
\* the sample role's key and None.
UnknownTypes == {SAMPLE, "None"}

\* No plate data, no accession data and no Drive folder are in play.
PlateIdle ==
    /\ data = << >>
    /\ control_wells = << >>
    /\ accession_data = << >>
    /\ accession_before = << >>

DriveIdle ==
    /\ marker_folder = {}
    /\ completed_barcodes = {}
    /\ barcode_files = << >>
    /\ run = 0
    /\ barcodes_to_process = {}
    /\ barcode = "none"
    /\ step = 0
    /\ done_steps = {}
    /\ visited = {}
    /\ failed = {}
    /\ marker_steps = << >>

ScanIdle ==
    /\ well_mapping = << >>
    /\ order = << >>
    /\ phase = "none"
    /\ before = << >>
    /\ after_first = << >>
    /\ arg_cutoff = 0
    /\ arg_radius = 0
    /\ arg_flag = "none"

InitCall ==
    /\ protocol \in Protocols
    /\ values \in ValuesMaps(protocol)
    /\ key_order = GeneOrder
    /\ op = "none"
    /\ arg_gene = "none"
    /\ arg_type = "none"
    /\ arg_name = "none"
    /\ result = "none"
    /\ ScanIdle
    /\ PlateIdle
    /\ DriveIdle

\* call = protocol.call_well(values)
CallWell ==
    /\ op = "none"
    /\ op' = "call_well"
    /\ arg_type' = SAMPLE
    /\ result' = call_well(protocol, values)
    /\ UNCHANGED <<protocol, values, key_order, arg_gene, arg_name, scanVars,
                 plateVars, driveVars>>

\* call = protocol.check_control(values, control_type)
CheckControl ==
    /\ op = "none"
    /\ \E control_type \in ControlType \cup UnknownTypes :
          /\ arg_type' = control_type
          /\ result' = check_control(protocol, values, control_type)
    /\ op' = "check_control"
    /\ UNCHANGED <<protocol, values, key_order, arg_gene, arg_name, scanVars,
                 plateVars, driveVars>>

NextCall == CallWell \/ CheckControl

SpecCall == InitCall /\ [][NextCall]_vars

\* call_ct_value on one gene, one value and one role, the values that raise
\* and the roles that are no key of the table included.
InitCt ==
    /\ protocol \in Protocols
    /\ \E g \in Genes : \E v \in CqNumbers \cup NotDetected \cup Malformed :
          values = (g :> v)
    /\ key_order = GeneOrder
    /\ op = "none"
    /\ arg_gene = "none"
    /\ arg_type = "none"
    /\ arg_name = "none"
    /\ result = "none"
    /\ ScanIdle
    /\ PlateIdle
    /\ DriveIdle

CallCtValue ==
    /\ op = "none"
    /\ \E g \in DOMAIN values : \E well_type \in {SAMPLE} \cup ControlType \cup {"None"} :
          /\ arg_gene' = g
          /\ arg_type' = well_type
          /\ result' = call_ct_value(protocol, g, values[g], well_type)
    /\ op' = "call_ct_value"
    /\ UNCHANGED <<protocol, values, key_order, arg_name, scanVars,
                 plateVars, driveVars>>

NextCt == CallCtValue

SpecCt == InitCt /\ [][NextCt]_vars

\* Values maps of a plate whose Cq columns were not cleaned: each gene is
\* absent or carries a number, a "not detected" sentinel, None or a string
\* that is no sentinel.
AnyValues == {Num(35)} \cup NotDetected \cup Malformed

AnyValuesMaps == UNION {[S -> AnyValues] : S \in SUBSET Genes}

\* The insertion orders of a dict with the given keys: every order of the
\* keys.  The gene names that are no key, which items leaves out, stand after
\* the keys in the order of GeneOrder.
GeneIndex(g) == CHOOSE i \in 1..Len(GeneOrder) : GeneOrder[i] = g
KeyOrders(keys) ==
    {s \in [1..Len(GeneOrder) -> Genes] :
        /\ \A i, j \in 1..Len(GeneOrder) : i # j => s[i] # s[j]
        /\ \A i, j \in 1..Len(GeneOrder) :
              (i < j /\ s[i] \notin keys) =>
                  /\ s[j] \notin keys
                  /\ GeneIndex(s[i]) < GeneIndex(s[j])}

InitMalformed ==
    /\ protocol \in Protocols
    /\ values \in AnyValuesMaps
    /\ key_order \in KeyOrders(DOMAIN values)
    /\ op = "none"
    /\ arg_gene = "none"
    /\ arg_type = "none"
    /\ arg_name = "none"
    /\ result = "none"
    /\ ScanIdle
    /\ PlateIdle
    /\ DriveIdle

SpecMalformed == InitMalformed /\ [][NextCall]_vars

\* Names get_protocol is called with: the registered names, and strings that
\* are a prefix, another case, a padded form or a neighbour of one, or empty.
ProtocolNames ==
    Protocols \cup {"SOP-V", "sop-v1", "SOP-V3 ", "SOP-V4", "UDG", "udgprotocol", ""}

\* A run before its protocol is resolved, with the values of its first well.
InitRegistry ==
    /\ protocol = "none"
    /\ \E g \in Genes : \E v \in CqNumbers \cup NotDetected : values = (g :> v)
    /\ key_order = GeneOrder
    /\ op = "none"
    /\ arg_gene = "none"
    /\ arg_type = "none"
    /\ arg_name = "none"
    /\ result = "none"
    /\ ScanIdle
    /\ PlateIdle
    /\ DriveIdle

\* protocol = get_protocol(protocol_name)
GetProtocol ==
    /\ op = "none"
    /\ \E protocol_name \in ProtocolNames :
          /\ arg_name' = protocol_name
          /\ result' = get_protocol(protocol_name)
          /\ protocol' = IF get_protocol(protocol_name) \in Errors
                         THEN protocol
                         ELSE get_protocol(protocol_name)
    /\ op' = "get_protocol"
    /\ UNCHANGED <<values, key_order, arg_gene, arg_type, scanVars,
                 plateVars, driveVars>>

\* The run goes on to call the well with the protocol it resolved; a run
\* whose get_protocol raised has ended.
CallWellResolved ==
    /\ op = "get_protocol"
    /\ result \notin Errors
    /\ op' = "call_well"
    /\ arg_type' = SAMPLE
    /\ result' = call_well(protocol, values)
    /\ UNCHANGED <<protocol, values, key_order, arg_gene, arg_name, scanVars,
                 plateVars, driveVars>>

NextRegistry == GetProtocol \/ CallWellResolved

SpecRegistry == InitRegistry /\ [][NextRegistry]_vars

(***************************************************************************)
(* Plate contamination scanner.                                            *)
(***************************************************************************)
\* radius with SOP_V1 left at the default of the dataclass.
radius_default(p) == 1

\* Protocol fields read by the scanner.
radius(p) == IF p = SOP_V1 THEN 0 ELSE 1
pos_cluster_cutoff(p) == IF p = SOP_V3 THEN 15 ELSE 10
hot_well_radius(p) == 3
hot_well_cutoff(p) == 22

\* WellResults(call=call, gene_cts=values, control_type=control_type)
WellResults(accession, call, gene_cts, control_type) ==
    [accession |-> accession, call |-> call, gene_cts |-> gene_cts,
     control_type |-> control_type]

RECURSIVE SumCts(_, _)
SumCts(gene_cts, S) ==
    IF S = {} THEN 0
    ELSE LET g == CHOOSE x \in S : TRUE
         IN  gene_cts[g].num + SumCts(gene_cts, S \ {g})

\* compare_wells with the difference taken the other way round.
Protocol_compare_wells_reversed(p, results, other_results, cutoff) ==
    LET genes == DOMAIN virus_genes(p)
    IN  /\ \A g \in genes : ~results.gene_cts[g].nan
        /\ \A g \in genes : ~other_results.gene_cts[g].nan
        /\ SumCts(other_results.gene_cts, genes) - SumCts(results.gene_cts, genes)
               > Cardinality(genes) * cutoff

\* compare_wells with a difference equal to the cutoff counting (>= for >).
Protocol_compare_wells_at_cutoff(p, results, other_results, cutoff) ==
    LET genes == DOMAIN virus_genes(p)
    IN  /\ \A g \in genes : ~results.gene_cts[g].nan
        /\ \A g \in genes : ~other_results.gene_cts[g].nan
        /\ SumCts(results.gene_cts, genes) - SumCts(other_results.gene_cts, genes)
               >= Cardinality(genes) * cutoff

\* Protocol.compare_wells: np.mean is NaN as soon as one virus-gene Cq is NaN,
\* and a comparison with NaN is False.  With n virus genes,
\* mean(a) - mean(b) > cutoff is sum(a) - sum(b) > n * cutoff.
Protocol_compare_wells(p, results, other_results, cutoff) ==
    LET genes == DOMAIN virus_genes(p)
    IN  /\ \A g \in genes : ~results.gene_cts[g].nan
        /\ \A g \in genes : ~other_results.gene_cts[g].nan
        /\ SumCts(results.gene_cts, genes) - SumCts(other_results.gene_cts, genes)
               > Cardinality(genes) * cutoff

\* V3 compare_wells with AND logic: every virus gene must differ by more than
\* the cutoff.
V3Protocol_compare_wells_all_genes(p, results, other_results, cutoff) ==
    \A g \in DOMAIN virus_genes(p) :
        /\ ~results.gene_cts[g].nan
        /\ ~other_results.gene_cts[g].nan
        /\ results.gene_cts[g].num - other_results.gene_cts[g].num > cutoff

\* V3Protocol.compare_wells: a difference with NaN is NaN, and NaN > cutoff is
\* False.
V3Protocol_compare_wells(p, results, other_results, cutoff) ==
    \E g \in DOMAIN virus_genes(p) :
        /\ ~results.gene_cts[g].nan
        /\ ~other_results.gene_cts[g].nan
        /\ results.gene_cts[g].num - other_results.gene_cts[g].num > cutoff

\* compare_wells without the override of V3Protocol.
compare_wells_no_override(p, results, other_results, cutoff) ==
    Protocol_compare_wells(p, results, other_results, cutoff)

\* self.compare_wells(results, other_results, cutoff)
compare_wells(p, results, other_results, cutoff) ==
    IF p = SOP_V3 THEN V3Protocol_compare_wells(p, results, other_results, cutoff)
    ELSE Protocol_compare_wells(p, results, other_results, cutoff)

\* The square with ranges that stop one short: range(row - r, row + r).
square_half_open(well_id, r) ==
    {<<other_row, other_col>> :
        other_row \in (well_id[1] - r)..(well_id[1] + r - 1),
        other_col \in (well_id[2] - r)..(well_id[2] + r - 1)}

\* The wells of the (2r+1) x (2r+1) square around well_id, itself included.
square(well_id, r) ==
    {<<other_row, other_col>> :
        other_row \in (well_id[1] - r)..(well_id[1] + r),
        other_col \in (well_id[2] - r)..(well_id[2] + r)}

\* The wells of a set in the order the two nested range loops of check_square
\* reach them: by row, then by column.
RECURSIVE RowMajor(_)
RowMajor(S) ==
    IF S = {} THEN << >>
    ELSE LET first == CHOOSE w \in S : \A o \in S :
                          w[1] < o[1] \/ (w[1] = o[1] /\ w[2] <= o[2])
         IN  <<first>> \o RowMajor(S \ {first})

\* The wells of the square that are on the plate (other_well in well_mapping),
\* in the order of the two nested loops.
adjacent(wm, well_id, r) == RowMajor(DOMAIN wm \cap square(well_id, r))

\* The inner loops of check_square with a neighbour counting only while its
\* own call is still exactly Positive.
RECURSIVE check_neighbours_other_positive(_, _, _, _, _, _)
check_neighbours_other_positive(p, wm, well_id, todo, cutoff, flag) ==
    IF todo = << >> THEN wm
    ELSE LET other_well == Head(todo)
             hit == /\ is_positive(wm[well_id].call)
                    /\ wm[other_well].call = POS
                    /\ compare_wells(p, wm[well_id], wm[other_well], cutoff)
         IN  check_neighbours_other_positive(
                 p, IF hit THEN [wm EXCEPT ![well_id].call = flag] ELSE wm,
                 well_id, Tail(todo), cutoff, flag)

\* The inner loops of check_square with the flag written to the other well
\* (other_results.call = flag).
RECURSIVE check_neighbours_flags_other(_, _, _, _, _, _)
check_neighbours_flags_other(p, wm, well_id, todo, cutoff, flag) ==
    IF todo = << >> THEN wm
    ELSE LET other_well == Head(todo)
             hit == /\ is_positive(wm[well_id].call)
                    /\ compare_wells(p, wm[well_id], wm[other_well], cutoff)
         IN  check_neighbours_flags_other(
                 p, IF hit THEN [wm EXCEPT ![other_well].call = flag] ELSE wm,
                 well_id, Tail(todo), cutoff, flag)

\* The inner loops of check_square for one candidate, over the wells of its
\* square that are on the plate: a well is skipped unless the candidate's call
\* is positive at that moment, and the candidate's call is set to flag when
\* compare_wells is true.
RECURSIVE check_neighbours(_, _, _, _, _, _)
check_neighbours(p, wm, well_id, todo, cutoff, flag) ==
    IF todo = << >> THEN wm
    ELSE LET other_well == Head(todo)
             hit == /\ is_positive(wm[well_id].call)
                    /\ compare_wells(p, wm[well_id], wm[other_well], cutoff)
         IN  check_neighbours(
                 p, IF hit THEN [wm EXCEPT ![well_id].call = flag] ELSE wm,
                 well_id, Tail(todo), cutoff, flag)

\* One iteration of the loop of check_square over well_mapping.items(): the
\* well is skipped unless its call is positive; otherwise it is compared with
\* the wells of its square.
check_well(p, wm, well_id, r, cutoff, flag) ==
    IF ~is_positive(wm[well_id].call) THEN wm
    ELSE check_neighbours(p, wm, well_id, adjacent(wm, well_id, r), cutoff, flag)

\* Protocol.check_square: the wells are visited in the order of the mapping.
RECURSIVE check_square_loop(_, _, _, _, _, _)
check_square_loop(p, wm, todo, r, cutoff, flag) ==
    IF todo = << >> THEN wm
    ELSE check_square_loop(p, check_well(p, wm, Head(todo), r, cutoff, flag),
                           Tail(todo), r, cutoff, flag)

check_square(p, wm, ord, r, cutoff, flag) ==
    check_square_loop(p, wm, ord, r, cutoff, flag)

\* Base flag_contamination escalating to Positive-by-hot-well.
Protocol_flag_contamination_hot_flag(p, wm, ord) ==
    <<check_square(p, wm, ord, radius(p), pos_cluster_cutoff(p), POS_HOTWELL)>>

\* Protocol.flag_contamination: the plate after each check_square call.
Protocol_flag_contamination(p, wm, ord) ==
    <<check_square(p, wm, ord, radius(p), pos_cluster_cutoff(p), POS_CLUSTER)>>

\* V3 flag_contamination with the neighbour pass before the hot-well pass.
V3Protocol_flag_contamination_cluster_first(p, wm, ord) ==
    LET first == check_square(p, wm, ord, radius(p), pos_cluster_cutoff(p),
                              POS_CLUSTER)
    IN  <<first,
          check_square(p, first, ord, hot_well_radius(p), hot_well_cutoff(p),
                       POS_HOTWELL)>>

\* V3Protocol.flag_contamination: the plate after each check_square call,
\* the hot-well pass first and the neighbour pass on its result.
V3Protocol_flag_contamination(p, wm, ord) ==
    LET first == check_square(p, wm, ord, hot_well_radius(p), hot_well_cutoff(p),
                              POS_HOTWELL)
    IN  <<first,
          check_square(p, first, ord, radius(p), pos_cluster_cutoff(p),
                       POS_CLUSTER)>>

\* protocol.flag_contamination(well_mapping)
flag_contamination(p, wm, ord) ==
    IF p = SOP_V3 THEN V3Protocol_flag_contamination(p, wm, ord)
    ELSE Protocol_flag_contamination(p, wm, ord)

(***************************************************************************)
(* Inputs of the scanner.                                                  *)
(***************************************************************************)
\* Cq pairs of the two virus genes of a well: strong, medium and weak signal
\* on both genes, one weak gene (either one), and one or both genes not
\* detected.
CtProfiles ==
    {<<Num(5), Num(5)>>, <<Num(27), Num(27)>>, <<Num(45), Num(45)>>,
     <<Num(5), Num(45)>>, <<Num(45), Num(5)>>, <<NaN, Num(45)>>, <<NaN, NaN>>}

\* The gene_cts of a well with the given virus-gene pair; the control gene of
\* a plate well is not read by the scanner.
GeneCts(p, profile) ==
    IF p = SOP_V1
    THEN ("RdRp" :> profile[1]) @@ ("E" :> profile[2]) @@ ("RNAse P" :> NaN)
    ELSE ("N" :> profile[1]) @@ ("E" :> profile[2]) @@ ("RNAse P" :> NaN)

\* Pass and Fail are the calls of control wells.
PlateWells(p) ==
    {WellResults("MISSING", c, GeneCts(p, profile),
                 IF c \in {PASS, FAIL} THEN NTC ELSE "None") :
        c \in Call, profile \in CtProfiles}

SecondWells ==
    {<<1 + dr, 1 + dc>> : dr \in 0..MaxRowGap, dc \in 0..MaxColGap} \ {<<1, 1>>}

ClassIdle ==
    /\ values = << >>
    /\ key_order = GeneOrder
    /\ op = "none"
    /\ arg_gene = "none"
    /\ arg_type = "none"
    /\ arg_name = "none"
    /\ result = "none"

InitScan ==
    /\ protocol \in Protocols
    /\ \E second \in SecondWells :
          /\ well_mapping \in [{<<1, 1>>, second} -> PlateWells(protocol)]
          /\ order \in {<<<<1, 1>>, second>>, <<second, <<1, 1>>>>}
    /\ phase = "start"
    /\ before = well_mapping
    /\ after_first = well_mapping
    /\ arg_cutoff = 0
    /\ arg_radius = 0
    /\ arg_flag = "none"
    /\ ClassIdle
    /\ PlateIdle
    /\ DriveIdle

\* protocol.flag_contamination(well_mapping) on a base protocol
FlagContamination ==
    /\ phase = "start"
    /\ protocol \in BaseProtocols
    /\ LET passes == flag_contamination(protocol, well_mapping, order)
       IN  /\ after_first' = passes[1]
           /\ well_mapping' = passes[Len(passes)]
    /\ phase' = "done"
    /\ UNCHANGED <<order, before, arg_cutoff, arg_radius, arg_flag, classVars,
                 plateVars, driveVars>>

\* protocol.flag_contamination(well_mapping) on SOP_V3
V3FlagContamination ==
    /\ phase = "start"
    /\ protocol = SOP_V3
    /\ LET passes == flag_contamination(protocol, well_mapping, order)
       IN  /\ after_first' = passes[1]
           /\ well_mapping' = passes[Len(passes)]
    /\ phase' = "done"
    /\ UNCHANGED <<order, before, arg_cutoff, arg_radius, arg_flag, classVars,
                 plateVars, driveVars>>

NextScan == FlagContamination \/ V3FlagContamination

SpecScan == InitScan /\ [][NextScan]_vars

\* Inputs of compare_wells: Cq pairs over numbers that put a difference, and
\* a difference of means, below, at and above each cutoff, and the cutoffs of
\* the registered protocols and 0.
CompareCq == {NaN, Num(5), Num(20), Num(25), Num(27), Num(45)}
CompareCutoffs == {0, 10, 15, 22}
WellA == <<1, 1>>
WellB == <<1, 2>>

InitCompare ==
    /\ protocol \in Protocols
    /\ well_mapping \in
          [{WellA, WellB} ->
              {WellResults("MISSING", POS, GeneCts(protocol, profile), "None") :
                   profile \in CompareCq \X CompareCq}]
    /\ order = <<WellA, WellB>>
    /\ phase = "compare"
    /\ before = well_mapping
    /\ after_first = well_mapping
    /\ arg_cutoff \in CompareCutoffs
    /\ arg_radius = 0
    /\ arg_flag = "none"
    /\ ClassIdle
    /\ PlateIdle
    /\ DriveIdle

\* self.compare_wells(results, other_results, cutoff)
CompareWells ==
    /\ phase = "compare"
    /\ op = "none"
    /\ op' = "compare_wells"
    /\ result' = IF compare_wells(protocol, well_mapping[WellA],
                                  well_mapping[WellB], arg_cutoff)
                 THEN "True" ELSE "False"
    /\ UNCHANGED <<protocol, values, key_order, arg_gene, arg_type, arg_name,
                 scanVars,
                 plateVars, driveVars>>

NextCompare == CompareWells

SpecCompare == InitCompare /\ [][NextCompare]_vars

\* Inputs of a single check_square call: three wells of one row at column
\* distances 1, 2 and 3, so that each radius reaches a different set of them,
\* with calls inside and outside the positive family and Cq pairs weaker and
\* stronger on both genes or on one gene each way.
SquareWells == {<<1, 1>>, <<1, 2>>, <<1, 4>>}
SquareCalls == {POS, NEG}
SquareProfiles ==
    {<<Num(5), Num(5)>>, <<Num(45), Num(45)>>, <<Num(5), Num(45)>>,
     <<Num(45), Num(5)>>}
SquareRadii == {0, radius(SOP_V3), hot_well_radius(SOP_V3)}
SquareCutoffs == {0, pos_cluster_cutoff(SOP_V2), hot_well_cutoff(SOP_V3)}

InitSquare ==
    /\ protocol \in Protocols
    /\ well_mapping \in
          [SquareWells ->
              {WellResults("MISSING", c, GeneCts(protocol, profile), "None") :
                   c \in SquareCalls, profile \in SquareProfiles}]
    /\ order = RowMajor(SquareWells)
    /\ phase = "start"
    /\ before = well_mapping
    /\ after_first = well_mapping
    /\ arg_radius \in SquareRadii
    /\ arg_cutoff \in SquareCutoffs
    /\ arg_flag \in {POS_CLUSTER, POS_HOTWELL}
    /\ ClassIdle
    /\ PlateIdle
    /\ DriveIdle

\* self.check_square(well_mapping, radius, cutoff, flag)
CheckSquare ==
    /\ phase = "start"
    /\ arg_flag # "none"
    /\ well_mapping' = check_square(protocol, well_mapping, order, arg_radius,
                                    arg_cutoff, arg_flag)
    /\ after_first' = well_mapping'
    /\ phase' = "squared"
    /\ UNCHANGED <<order, before, arg_cutoff, arg_radius, arg_flag, classVars,
                 plateVars, driveVars>>

NextSquare == CheckSquare \/ FlagContamination \/ V3FlagContamination

SpecSquare == InitSquare /\ [][NextSquare]_vars

(***************************************************************************)
(* Properties of the well classifier.                                      *)
(***************************************************************************)
\* The words of the classifier's contract, on the input in the state.
Detected(g) ==
    g \in DOMAIN values /\ values[g].kind = "float" /\ ~values[g].nan

BelowCutoff(g, role) ==
    \A c \in gene_cutoffs(protocol)[g][role] : values[g].num < c

Called(g, role) ==
    /\ Detected(g)
    /\ g \in DOMAIN gene_cutoffs(protocol)
    /\ BelowCutoff(g, role)

VirusGenes == DOMAIN virus_genes(protocol)
ControlGenes == DOMAIN control_genes(protocol)

NoVirusDetected == \A g \in VirusGenes : ~Detected(g)
AllVirusCalled == \A g \in VirusGenes : Called(g, SAMPLE)
AllControlCalled == \A g \in ControlGenes : Called(g, SAMPLE)

\* C1: when no virus gene of the protocol is detected, call_well returns
\* Negative if and only if every control gene is called under the sample
\* thresholds, and Invalid otherwise.
C1_NegativeIffControlsCalled ==
    (op = "call_well" /\ NoVirusDetected) =>
        /\ result \in {NEG, INV}
        /\ result = NEG <=> AllControlCalled

\* C1 witness: no virus gene detected, the control gene detected at or above
\* its sample cutoff, and the call is Invalid.
C1_Witness ==
    /\ op = "call_well"
    /\ protocol = SOP_V2
    /\ NoVirusDetected
    /\ Detected("RNAse P") /\ ~Called("RNAse P", SAMPLE)
    /\ result = INV

\* C2: under a base protocol, when at least one virus gene is detected,
\* call_well returns Positive if and only if every virus gene is called under
\* the sample thresholds, and Indeterminate otherwise.
C2_PositiveIffAllVirusCalled ==
    (op = "call_well" /\ protocol \in BaseProtocols /\ ~NoVirusDetected) =>
        /\ result \in {POS, IND}
        /\ result = POS <=> AllVirusCalled

\* C2 witness: one virus gene called, the other detected at its cutoff, and
\* the call is Indeterminate.
C2_Witness ==
    /\ op = "call_well"
    /\ protocol = SOP_V2
    /\ Called("N", SAMPLE)
    /\ Detected("E") /\ values["E"].num = 40
    /\ result = IND

\* C3: SOP-V3 call_well returns Positive-needs-review exactly when the base
\* decision procedure with SOP-V3's thresholds returns Indeterminate, and the
\* base result otherwise; it never returns Indeterminate, and returns
\* Positive only when every virus gene is called.
C3_V3ReroutesIndeterminate ==
    (op = "call_well" /\ protocol = SOP_V3) =>
        /\ result = POS_REVIEW <=> Protocol_call_well(SOP_V3, values) = IND
        /\ result # POS_REVIEW => result = Protocol_call_well(SOP_V3, values)
        /\ result # IND
        /\ result = POS => AllVirusCalled
        /\ result = POS_REVIEW <=> (~NoVirusDetected /\ ~AllVirusCalled)

\* C3 witness: a V3 well with one virus gene undetected and the other
\* detected is called Positive-needs-review.
C3_Witness ==
    /\ op = "call_well"
    /\ protocol = SOP_V3
    /\ ~Detected("N") /\ Detected("E")
    /\ result = POS_REVIEW

\* C4: call_ct_value(gene, Cq, role) is true if and only if the Cq is
\* detected, the gene belongs to the protocol's gene set, and the cutoff for
\* (gene, role) is None or strictly greater than the Cq.
C4_CalledIffBelowCutoff ==
    (op = "call_ct_value" /\ arg_type \in {SAMPLE} \cup ControlType) =>
        /\ result = "True" <=> Called(arg_gene, arg_type)
        /\ (Detected(arg_gene) /\ arg_gene \in DOMAIN gene_cutoffs(protocol)) =>
              /\ result \in {"True", "False"}
              /\ values[arg_gene].num \in gene_cutoffs(protocol)[arg_gene][arg_type]
                     => result = "False"
              /\ gene_cutoffs(protocol)[arg_gene][arg_type] = NoCutoff
                     => result = "True"

\* C4 witness: a Cq exactly equal to the cutoff is not called.
C4_Witness ==
    /\ op = "call_ct_value"
    /\ arg_type = SAMPLE
    /\ Detected(arg_gene)
    /\ arg_gene \in DOMAIN gene_cutoffs(protocol)
    /\ values[arg_gene].num \in gene_cutoffs(protocol)[arg_gene][arg_type]
    /\ result = "False"

\* C5: for control type NTC or PBS, check_control returns Pass if and only if
\* no gene is called under that control type's thresholds, and Fail otherwise;
\* with the registered protocols this is: no gene of the protocol is detected.
C5_BlankPassIffNothingCalled ==
    (op = "check_control" /\ arg_type \in {NTC, PBS}) =>
        /\ result \in {PASS, FAIL}
        /\ result = PASS <=> \A g \in Genes : ~Called(g, arg_type)
        /\ result = PASS <=> \A g \in DOMAIN gene_cutoffs(protocol) : ~Detected(g)

\* C5 witness: a blank in which only the control gene is detected fails.
C5_Witness ==
    /\ op = "check_control"
    /\ arg_type = NTC
    /\ NoVirusDetected
    /\ Detected("RNAse P")
    /\ result = FAIL

\* C6: for control type PC, check_control returns Pass if and only if every
\* gene of the protocol, virus and control, is called under the PC thresholds.
C6_PositiveControlPassIffAllCalled ==
    (op = "check_control" /\ arg_type = PC) =>
        /\ result \in {PASS, FAIL}
        /\ result = PASS <=> \A g \in VirusGenes \cup ControlGenes : Called(g, PC)

\* C6 witness: a positive control whose virus genes are called and whose
\* control gene is not fails.
C6_Witness ==
    /\ op = "check_control"
    /\ arg_type = PC
    /\ \A g \in VirusGenes : Called(g, PC)
    /\ \E g \in ControlGenes : ~Called(g, PC)
    /\ result = FAIL

\* C7: for control type HRC, check_control returns Pass if and only if the
\* set of genes called under the HRC thresholds is exactly the control-gene
\* set: every control gene is called and no virus gene is detected.
C7_HumanControlPassIffExactlyControls ==
    (op = "check_control" /\ arg_type = HRC) =>
        /\ result \in {PASS, FAIL}
        /\ result = PASS <=> {g \in Genes : Called(g, HRC)} = ControlGenes
        /\ result = PASS <=>
              /\ \A g \in ControlGenes : Called(g, HRC)
              /\ NoVirusDetected

\* C7 witness: a human control whose control gene is called and in which a
\* virus gene is detected fails.
C7_Witness ==
    /\ op = "check_control"
    /\ arg_type = HRC
    /\ \A g \in ControlGenes : Called(g, HRC)
    /\ ~NoVirusDetected
    /\ result = FAIL

\* C8: check_control with a control type other than NTC, PC, HRC or PBS ends
\* in an error for every values map; it never returns Pass or Fail.
C8_UnknownControlTypeRaises ==
    (op = "check_control" /\ arg_type \notin ControlType) =>
        /\ result \in Errors
        /\ result \notin {PASS, FAIL}

\* C8 witness: the sample role given as control type, every gene undetected:
\* the call ends in ValueError.
C8_Witness ==
    /\ op = "check_control"
    /\ arg_type = SAMPLE
    /\ \A g \in Genes : ~Detected(g)
    /\ result = "ValueError"

(***************************************************************************)
(* Properties of the plate contamination scanner.                          *)
(***************************************************************************)
Wells == DOMAIN before

\* The call of well w was rewritten by the first, or by the second,
\* check_square call of flag_contamination.
ChangedByFirst(w) == after_first[w].call # before[w].call
ChangedBySecond(w) == well_mapping[w].call # after_first[w].call

\* Well o lies in the square of the given radius around well w.
Within(w, o, r) ==
    /\ o[1] - w[1] <= r /\ w[1] - o[1] <= r
    /\ o[2] - w[2] <= r /\ w[2] - o[2] <= r

\* Some virus gene of well w has a Cq higher by more than cutoff than the same
\* gene of well o, both being numbers.
GeneWeakerBy(w, o, cutoff) ==
    \E g \in VirusGenes :
        /\ ~before[w].gene_cts[g].nan
        /\ ~before[o].gene_cts[g].nan
        /\ before[w].gene_cts[g].num - before[o].gene_cts[g].num > cutoff

\* C9 as stated: check_square changes the call of a well only if the call at
\* that moment is exactly Positive.
C9_OnlyExactlyPositiveChanged ==
    phase = "done" =>
        \A w \in Wells :
            /\ ChangedByFirst(w) => before[w].call = POS
            /\ ChangedBySecond(w) => after_first[w].call = POS

\* C9 amended: check_square changes the call of a well only if the call at
\* that moment is Positive, Positive-needs-review, Positive-by-cluster or
\* Positive-by-hot-well; a well called Negative, Invalid, Indeterminate, Pass
\* or Fail keeps its call.
C9_OnlyPositiveFamilyChanged ==
    phase = "done" =>
        \A w \in Wells :
            /\ ChangedByFirst(w) =>
                  before[w].call \in {POS, POS_REVIEW, POS_CLUSTER, POS_HOTWELL}
            /\ ChangedBySecond(w) =>
                  after_first[w].call \in {POS, POS_REVIEW, POS_CLUSTER, POS_HOTWELL}
            /\ before[w].call \in {NEG, INV, IND, PASS, FAIL} =>
                  /\ after_first[w].call = before[w].call
                  /\ well_mapping[w].call = before[w].call

\* C9 witness: a Negative well next to a Positive-needs-review well whose Cq
\* is lower by more than the hot-well cutoff keeps its call.
C9_Witness ==
    /\ phase = "done"
    /\ protocol = SOP_V3
    /\ \E w \in Wells : \E o \in Wells :
          /\ before[w].call = NEG
          /\ Within(w, o, 1)
          /\ GeneWeakerBy(w, o, 22)
          /\ well_mapping[w].call = NEG
          /\ before[o].call = POS_REVIEW

\* C10 as stated: under SOP-V3 no well whose call became Positive-by-hot-well
\* in the first pass ends flag_contamination with call Positive-by-cluster.
C10_HotWellNeverCluster ==
    (phase = "done" /\ protocol = SOP_V3) =>
        \A w \in Wells :
            (ChangedByFirst(w) /\ after_first[w].call = POS_HOTWELL) =>
                well_mapping[w].call # POS_CLUSTER

\* C10 amended: under SOP-V3 the hot-well pass runs before the cluster pass
\* and a well escalated to Positive-by-hot-well by the first pass is still a
\* candidate of the second: it ends flag_contamination with call
\* Positive-by-cluster if some well within radius 1 has, for at least one
\* virus gene, a Cq lower by more than 15, and with Positive-by-hot-well
\* otherwise.
C10_HotWellStillClusterCandidate ==
    (phase = "done" /\ protocol = SOP_V3) =>
        \A w \in Wells :
            /\ ChangedByFirst(w) => after_first[w].call = POS_HOTWELL
            /\ (ChangedByFirst(w) /\ after_first[w].call = POS_HOTWELL) =>
                  well_mapping[w].call =
                      IF \E o \in Wells : Within(w, o, 1) /\ GeneWeakerBy(w, o, 15)
                      THEN POS_CLUSTER
                      ELSE POS_HOTWELL

\* C10 witness: a well escalated to Positive-by-hot-well by the first pass
\* ends with call Positive-by-cluster.
C10_Witness ==
    /\ phase = "done"
    /\ protocol = SOP_V3
    /\ \E w \in Wells :
          /\ before[w].call = POS
          /\ after_first[w].call = POS_HOTWELL
          /\ well_mapping[w].call = POS_CLUSTER

\* C11: after SOP-V3 flag_contamination, a well that entered with call
\* Positive or Positive-needs-review ends with Positive-by-cluster if some
\* well within radius 1 has, for at least one virus gene, a Cq lower by more
\* than 15; otherwise with Positive-by-hot-well if some well within radius 3
\* has, for at least one virus gene, a Cq lower by more than 22; otherwise it
\* keeps its entry call.
C11_V3FinalCall ==
    (phase = "done" /\ protocol = SOP_V3) =>
        \A w \in Wells :
            before[w].call \in {POS, POS_REVIEW} =>
                well_mapping[w].call =
                    IF \E o \in Wells : Within(w, o, 1) /\ GeneWeakerBy(w, o, 15)
                    THEN POS_CLUSTER
                    ELSE IF \E o \in Wells :
                                Within(w, o, 3) /\ GeneWeakerBy(w, o, 22)
                         THEN POS_HOTWELL
                         ELSE before[w].call

\* C11 witness: a Positive-needs-review well with one gene not detected whose
\* only stronger well is two or three columns away ends Positive-by-hot-well.
C11_Witness ==
    /\ phase = "done"
    /\ protocol = SOP_V3
    /\ \E w \in Wells : \E o \in Wells :
          /\ before[w].call = POS_REVIEW
          /\ before[w].gene_cts["N"].nan
          /\ ~Within(w, o, 1) /\ Within(w, o, 3)
          /\ GeneWeakerBy(w, o, 22)
          /\ well_mapping[w].call = POS_HOTWELL

\* C12: every call that flag_contamination changes was a positive call before
\* the change and becomes Positive-by-cluster or Positive-by-hot-well; a well
\* that is Positive-by-cluster or Positive-by-hot-well is never set back to
\* Positive or Positive-needs-review; a base protocol never assigns
\* Positive-by-hot-well.
C12_EscalationOnly ==
    phase = "done" =>
        \A w \in Wells :
            /\ ChangedByFirst(w) =>
                  /\ before[w].call \in {POS, POS_REVIEW, POS_CLUSTER, POS_HOTWELL}
                  /\ after_first[w].call \in {POS_CLUSTER, POS_HOTWELL}
            /\ ChangedBySecond(w) =>
                  /\ after_first[w].call \in {POS, POS_REVIEW, POS_CLUSTER, POS_HOTWELL}
                  /\ well_mapping[w].call \in {POS_CLUSTER, POS_HOTWELL}
            /\ before[w].call \in {POS_CLUSTER, POS_HOTWELL} =>
                  /\ after_first[w].call \in {POS_CLUSTER, POS_HOTWELL}
                  /\ well_mapping[w].call \in {POS_CLUSTER, POS_HOTWELL}
            /\ after_first[w].call \in {POS_CLUSTER, POS_HOTWELL} =>
                  well_mapping[w].call \in {POS_CLUSTER, POS_HOTWELL}
            /\ protocol \in BaseProtocols =>
                  /\ after_first[w] = well_mapping[w]
                  /\ well_mapping[w].call = POS_HOTWELL =>
                        before[w].call = POS_HOTWELL
                  /\ ChangedByFirst(w) => well_mapping[w].call = POS_CLUSTER

\* C12 witness: under a base protocol a Positive well is escalated to
\* Positive-by-cluster while the Negative well next to it, weaker than its
\* neighbour, keeps its call.
C12_Witness ==
    /\ phase = "done"
    /\ protocol = UDGprotocol
    /\ \E w \in Wells : \E o \in Wells :
          /\ before[w].call = POS
          /\ well_mapping[w].call = POS_CLUSTER
          /\ before[o].call = NEG
          /\ well_mapping[o].call = NEG

\* All virus-gene Cqs of wells w and o are numbers and the mean of w's exceeds
\* the mean of o's by more than cutoff (two virus genes per protocol).
MeanWeakerBy(w, o, cutoff) ==
    \E g1 \in VirusGenes : \E g2 \in VirusGenes :
        /\ g1 # g2
        /\ VirusGenes = {g1, g2}
        /\ \A g \in {g1, g2} :
              ~before[w].gene_cts[g].nan /\ ~before[o].gene_cts[g].nan
        /\ (before[w].gene_cts[g1].num + before[w].gene_cts[g2].num)
             - (before[o].gene_cts[g1].num + before[o].gene_cts[g2].num)
               > 2 * cutoff

\* C13: under a base protocol, a candidate well (positive call on entry, not
\* already Positive-by-cluster) ends flag_contamination with call
\* Positive-by-cluster if and only if some well on the plate within the
\* inclusive square of the protocol's radius (0 for SOP-V1, 1 otherwise) has a
\* mean virus-gene Cq lower by more than pos_cluster_cutoff (10); a well that
\* is not escalated keeps its call, so wells outside the square never cause an
\* escalation.
C13_ClusterIffNeighbourInSquare ==
    (phase = "done" /\ protocol \in BaseProtocols) =>
        \A w \in Wells :
            before[w].call \in {POS, POS_REVIEW, POS_HOTWELL} =>
                /\ well_mapping[w].call = POS_CLUSTER <=>
                      \E o \in Wells :
                          /\ Within(w, o, IF protocol = SOP_V1 THEN 0 ELSE 1)
                          /\ MeanWeakerBy(w, o, 10)
                /\ well_mapping[w].call # POS_CLUSTER =>
                      well_mapping[w].call = before[w].call

\* C13 witness: the first well of the plate is escalated on account of the
\* well diagonally below and to the right of it.
C13_Witness ==
    /\ phase = "done"
    /\ protocol = SOP_V2
    /\ <<2, 2>> \in Wells
    /\ before[<<1, 1>>].call = POS
    /\ MeanWeakerBy(<<1, 1>>, <<2, 2>>, 10)
    /\ well_mapping[<<1, 1>>].call = POS_CLUSTER

\* Well a is weaker than well b by more than the protocol's pos_cluster_cutoff
\* in the sense of the protocol's comparison: the mean over the virus genes
\* for a base protocol, some single virus gene for SOP-V3.
WeakerByClusterCutoff(a, b) ==
    IF protocol = SOP_V3 THEN GeneWeakerBy(a, b, 15) ELSE MeanWeakerBy(a, b, 10)

\* Two distinct adjacent wells, both Positive on entry, a weaker than b.
AdjacentPositivePair(a, b) ==
    /\ a # b
    /\ Within(a, b, 1)
    /\ before[a].call = POS
    /\ before[b].call = POS
    /\ WeakerByClusterCutoff(a, b)

\* C14 as stated: for any two adjacent Positive wells a and b with a weaker
\* than b by more than pos_cluster_cutoff, flag_contamination escalates a to
\* Positive-by-cluster and leaves b's call Positive.
C14_WeakerEscalatedStrongerKept ==
    phase = "done" =>
        \A a \in Wells : \A b \in Wells :
            AdjacentPositivePair(a, b) =>
                /\ well_mapping[a].call = POS_CLUSTER
                /\ well_mapping[b].call = POS

\* C14 amended: on a plate of two adjacent Positive wells a and b with a
\* weaker than b by more than pos_cluster_cutoff, flag_contamination escalates
\* a to Positive-by-cluster under the protocols of radius 1 (SOP-V2,
\* UDGprotocol, SOP-V3) and changes neither call under SOP-V1 (radius 0); b
\* stays Positive under a base protocol, and under SOP-V3 b stays Positive
\* unless some virus gene of b has a Cq higher than a's by more than 15, in
\* which case b too becomes Positive-by-cluster.
C14_WeakerEscalatedWithinRadius ==
    phase = "done" =>
        \A a \in Wells : \A b \in Wells :
            AdjacentPositivePair(a, b) =>
                /\ protocol # SOP_V1 => well_mapping[a].call = POS_CLUSTER
                /\ protocol = SOP_V1 => well_mapping[a].call = POS
                /\ protocol \in BaseProtocols => well_mapping[b].call = POS
                /\ protocol = SOP_V3 =>
                      well_mapping[b].call =
                          IF GeneWeakerBy(b, a, 15) THEN POS_CLUSTER ELSE POS

\* C14 witness: under SOP-V2 the weaker of two adjacent Positive wells ends
\* Positive-by-cluster and the stronger one is still Positive.
C14_Witness ==
    /\ phase = "done"
    /\ protocol = SOP_V2
    /\ \E a \in Wells : \E b \in Wells :
          /\ AdjacentPositivePair(a, b)
          /\ well_mapping[a].call = POS_CLUSTER
          /\ well_mapping[b].call = POS

\* C19: flag_contamination modifies nothing except the call of candidate
\* wells: a well called Negative, Invalid, Indeterminate, Pass or Fail keeps
\* its call, no well's Cq map, accession or control type changes, and no well
\* is added to or removed from the mapping.
C19_OnlyCandidateCallsChange ==
    phase = "done" =>
        /\ DOMAIN after_first = DOMAIN before
        /\ DOMAIN well_mapping = DOMAIN before
        /\ \A w \in Wells :
              /\ after_first[w] = [before[w] EXCEPT !.call = after_first[w].call]
              /\ well_mapping[w] = [before[w] EXCEPT !.call = well_mapping[w].call]
              /\ well_mapping[w].gene_cts = before[w].gene_cts
              /\ well_mapping[w].accession = before[w].accession
              /\ well_mapping[w].control_type = before[w].control_type
              /\ ~is_positive(before[w].call) =>
                    /\ after_first[w] = before[w]
                    /\ well_mapping[w] = before[w]

\* C19 witness: a Positive well is escalated on account of a passing control
\* well next to it, and the control well is exactly as it was.
C19_Witness ==
    /\ phase = "done"
    /\ \E w \in Wells : \E o \in Wells :
          /\ before[w].call = POS
          /\ well_mapping[w].call = POS_CLUSTER
          /\ well_mapping[w].gene_cts = before[w].gene_cts
          /\ before[o].call = PASS
          /\ before[o].control_type = NTC
          /\ well_mapping[o] = before[o]

\* A check_square pass that visits the wells in the order ord and compares a
\* candidate with the wells of its square in the order they have in nbrs.
RECURSIVE PassInOrder(_, _, _)
PassInOrder(wm, ord, nbrs) ==
    IF ord = << >> THEN wm
    ELSE LET well_id == Head(ord)
             InSquare(o) == o \in square(well_id, arg_radius)
         IN  PassInOrder(
                 IF ~is_positive(wm[well_id].call) THEN wm
                 ELSE check_neighbours(protocol, wm, well_id,
                                       SelectSeq(nbrs, InSquare), arg_cutoff,
                                       arg_flag),
                 Tail(ord), nbrs)

\* The orders in which the wells of the plate can be listed.
WellOrders ==
    {s \in [1..Cardinality(Wells) -> Wells] : \A w \in Wells : \E i \in DOMAIN s : s[i] = w}

\* Some well on the plate within the radius of the pass makes the protocol's
\* comparison with well w true at the cutoff of the pass.
StrongerWellInSquare(w) ==
    \E o \in Wells :
        /\ Within(w, o, arg_radius)
        /\ IF protocol = SOP_V3 THEN GeneWeakerBy(w, o, arg_cutoff)
           ELSE MeanWeakerBy(w, o, arg_cutoff)

\* C15: the outcome of a check_square pass is the same for every order in
\* which the wells are visited and every order in which a candidate's
\* neighbours are compared; a well is escalated exactly when its own call at
\* the start of the pass is positive and the Cq maps put a stronger well in
\* its square, whatever happened to the other wells.
C15_OrderIndependent ==
    phase = "squared" =>
        /\ \A ord \in WellOrders : \A nbrs \in WellOrders :
              PassInOrder(before, ord, nbrs) = well_mapping
        /\ \A w \in Wells :
              well_mapping[w].call =
                  IF is_positive(before[w].call) /\ StrongerWellInSquare(w)
                  THEN arg_flag
                  ELSE before[w].call

\* C15 witness: under SOP-V3 two adjacent Positive wells, each weaker than the
\* other on one gene, are both escalated by one pass.
C15_Witness ==
    /\ phase = "squared"
    /\ protocol = SOP_V3
    /\ arg_radius = 1
    /\ before[<<1, 1>>].call = POS
    /\ before[<<1, 2>>].call = POS
    /\ GeneWeakerBy(<<1, 1>>, <<1, 2>>, arg_cutoff)
    /\ GeneWeakerBy(<<1, 2>>, <<1, 1>>, arg_cutoff)
    /\ well_mapping[<<1, 1>>].call = arg_flag
    /\ well_mapping[<<1, 2>>].call = arg_flag

\* C16: a check_square pass with radius 0 changes no call, whatever the
\* plate, the cutoff (0 or more) and the comparison (base or V3); and
\* flag_contamination under SOP-V1, whose radius is 0, changes no call.
C16_RadiusZeroChangesNothing ==
    /\ (phase = "squared" /\ arg_radius = 0) => well_mapping = before
    /\ (phase = "done" /\ protocol = SOP_V1) =>
          /\ after_first = before
          /\ well_mapping = before

\* C16 witness: a radius-0 pass at cutoff 0 under the V3 comparison leaves a
\* Positive well Positive although the Positive well next to it is stronger
\* on both genes.
C16_Witness ==
    /\ phase = "squared"
    /\ protocol = SOP_V3
    /\ arg_radius = 0
    /\ arg_cutoff = 0
    /\ before[<<1, 1>>].call = POS
    /\ before[<<1, 2>>].call = POS
    /\ \A g \in VirusGenes :
          before[<<1, 1>>].gene_cts[g].num > before[<<1, 2>>].gene_cts[g].num
    /\ well_mapping = before

(***************************************************************************)
(* Properties of compare_wells and of the protocol registry.               *)
(***************************************************************************)
\* C17: base compare_wells(a, b, cutoff) is true if and only if every
\* virus-gene Cq of both wells is a number and the mean of a's exceeds the
\* mean of b's by strictly more than cutoff; with a NaN virus-gene Cq in
\* either well it is false.
C17_BaseMeanStrictlyAbove ==
    (op = "compare_wells" /\ protocol \in BaseProtocols) =>
        /\ result \in {"True", "False"}
        /\ result = "True" <=> MeanWeakerBy(WellA, WellB, arg_cutoff)
        /\ (\E w \in {WellA, WellB} : \E g \in VirusGenes :
                well_mapping[w].gene_cts[g].nan) => result = "False"

\* C17 witness: under SOP-V2 the Cqs of a are 25 and 25, those of b are 5
\* and 25: the means differ by exactly the cutoff 10 (and gene N alone by 20),
\* and the result is false.
C17_Witness ==
    /\ op = "compare_wells"
    /\ protocol = SOP_V2
    /\ arg_cutoff = 10
    /\ well_mapping[WellA].gene_cts["N"] = Num(25)
    /\ well_mapping[WellA].gene_cts["E"] = Num(25)
    /\ well_mapping[WellB].gene_cts["N"] = Num(5)
    /\ well_mapping[WellB].gene_cts["E"] = Num(25)
    /\ result = "False"

\* C18: SOP-V3 compare_wells(a, b, cutoff) is true if and only if for at
\* least one virus gene both wells have a numeric Cq and a's exceeds b's by
\* more than cutoff; a NaN for one gene does not suppress a true result from
\* the other gene.
C18_V3AnyGeneAbove ==
    (op = "compare_wells" /\ protocol = SOP_V3) =>
        /\ result \in {"True", "False"}
        /\ result = "True" <=> GeneWeakerBy(WellA, WellB, arg_cutoff)
        /\ \A g \in VirusGenes :
              (/\ ~well_mapping[WellA].gene_cts[g].nan
               /\ ~well_mapping[WellB].gene_cts[g].nan
               /\ well_mapping[WellA].gene_cts[g].num
                    - well_mapping[WellB].gene_cts[g].num > arg_cutoff)
                  => result = "True"

\* C18 witness: gene N of a is not detected, gene E of a exceeds b's by more
\* than the cutoff, and the result is true.
C18_Witness ==
    /\ op = "compare_wells"
    /\ protocol = SOP_V3
    /\ arg_cutoff = 22
    /\ well_mapping[WellA].gene_cts["N"].nan
    /\ ~well_mapping[WellB].gene_cts["N"].nan
    /\ well_mapping[WellA].gene_cts["E"].num
         - well_mapping[WellB].gene_cts["E"].num > arg_cutoff
    /\ result = "True"

\* C20: get_protocol(name) returns the registered protocol whose name is
\* exactly the argument, for each of SOP-V1, SOP-V2, UDGprotocol and SOP-V3,
\* so that get_protocol(p.name) is p for every registered p; for every other
\* string it raises ValueError and the run resolves no protocol.
C20_ExactNameOrError ==
    op # "none" =>
        /\ arg_name = "SOP-V1" => protocol = SOP_V1
        /\ arg_name = "SOP-V2" => protocol = SOP_V2
        /\ arg_name = "UDGprotocol" => protocol = UDGprotocol
        /\ arg_name = "SOP-V3" => protocol = SOP_V3
        /\ arg_name \in {"SOP-V1", "SOP-V2", "UDGprotocol", "SOP-V3"} =>
              /\ name(protocol) = arg_name
              /\ op = "get_protocol" => result = protocol
        /\ arg_name \notin {"SOP-V1", "SOP-V2", "UDGprotocol", "SOP-V3"} =>
              /\ op = "get_protocol"
              /\ result = "ValueError"
              /\ protocol = "none"
        /\ \A p \in Protocols : get_protocol(name(p)) = p

\* C20 witness: a prefix of a registered name resolves to no protocol.
C20_Witness ==
    /\ op = "get_protocol"
    /\ arg_name = "SOP-V"
    /\ result = "ValueError"
    /\ protocol = "none"

(***************************************************************************)
(* Properties of the classifier on missing, malformed and foreign values.  *)
(***************************************************************************)
\* The operation in the state is a classification with a role of the table.
Classified ==
    \/ op = "call_well"
    \/ op = "check_control" /\ arg_type \in ControlType

\* The classification of a values map, by the operation and role in the state.
Classify(vals) ==
    IF op = "call_well" THEN call_well(protocol, vals)
    ELSE check_control(protocol, vals, arg_type)

\* A value that stands for "not detected" according to C21.
Missing(v) == v \in NotDetected \/ v = None

\* The values map with every missing value written as a float NaN.
MissingAsNaN(vals) ==
    [g \in DOMAIN vals |-> IF Missing(vals[g]) THEN NaN ELSE vals[g]]

\* C21 as stated: a Cq that is NaN, "NaN", "" or None, or a gene absent from
\* the map, is treated as not detected by call_well and check_control:
\* the classification returns a Call, the one the map with float NaN in place
\* of the missing values gets, and never raises.
C21_MissingIsNotDetected ==
    (Classified /\ \A g \in DOMAIN values :
                       Missing(values[g]) \/ values[g] \in CqNumbers) =>
        /\ result \in Call
        /\ result = Classify(MissingAsNaN(values))

\* C22: a Cq that is neither a number nor a not-detected sentinel (a string
\* other than "NaN" and "") makes call_well and check_control end in an
\* error, whichever gene carries it, a gene outside the protocol included.
C22_MalformedRaises ==
    ((op = "call_well" \/ op = "check_control") /\
     \E g \in DOMAIN values :
         values[g].kind = "str" /\ values[g].str \notin {"NaN", ""}) =>
        /\ result \in Errors
        /\ result \notin Call
        /\ Classified => result = "TypeError"

\* C22 witness: under SOP-V2 the only malformed value sits on RdRp, a gene
\* outside the protocol, every other value is well formed, and call_well
\* raises TypeError.
C22_Witness ==
    /\ op = "call_well"
    /\ protocol = SOP_V2
    /\ "RdRp" \in DOMAIN values
    /\ values["RdRp"] = Str("abc")
    /\ \A g \in DOMAIN values \ {"RdRp"} : values[g] \in CqNumbers
    /\ DOMAIN values = Genes
    /\ result = "TypeError"

\* The values map with gene g carrying v, and with no entry for gene g.
WithGene(vals, g, v) ==
    [h \in DOMAIN vals \cup {g} |-> IF h = g THEN v ELSE vals[h]]
WithoutGene(vals, g) == [h \in DOMAIN vals \ {g} |-> vals[h]]

\* C23: a gene that is neither a virus gene nor a control gene of the
\* protocol is ignored: whatever well-formed Cq it carries in the map
\* (absent, NaN or a number), removing its entry, or giving it a late Cq or
\* an empty string instead, leaves the result of call_well and of
\* check_control (whatever the control type) unchanged.
C23_ForeignGenesIgnored ==
    op \in {"call_well", "check_control"} =>
        \A g \in Genes \ DOMAIN gene_cutoffs(protocol) :
            /\ Classify(WithoutGene(values, g)) = result
            /\ Classify(WithGene(values, g, Num(MaxCq))) = result
            /\ Classify(WithGene(values, g, Str(""))) = result

\* C23 witness: under SOP-V2 a well with RdRp detected and N and E not
\* detected is Negative, as it is without the RdRp entry.
C23_Witness ==
    /\ op = "call_well"
    /\ protocol = SOP_V2
    /\ Detected("RdRp")
    /\ NoVirusDetected
    /\ Called("RNAse P", SAMPLE)
    /\ result = NEG
    /\ call_well(protocol, WithoutGene(values, "RdRp")) = NEG

\* C25: for a sample with no virus gene detected, SOP-V2 call_well returns
\* Negative when the RNAse P Cq is below 36 and Invalid when it is 36 or
\* above, SOP-V3 returns Negative for every detected RNAse P Cq, and both
\* return Invalid when RNAse P is not detected.
C25_ControlCutoffV2NotV3 ==
    (op = "call_well" /\ NoVirusDetected) =>
        /\ (protocol = SOP_V2 /\ Detected("RNAse P")) =>
              result = IF values["RNAse P"].num < 36 THEN NEG ELSE INV
        /\ (protocol = SOP_V3 /\ Detected("RNAse P")) => result = NEG
        /\ (protocol \in {SOP_V2, SOP_V3} /\ ~Detected("RNAse P")) => result = INV

\* C25 witness: under SOP-V3 a well with no virus gene detected and RNAse P
\* at 36 cycles or later is Negative.
C25_Witness ==
    /\ op = "call_well"
    /\ protocol = SOP_V3
    /\ NoVirusDetected
    /\ Detected("RNAse P")
    /\ values["RNAse P"].num >= 36
    /\ result = NEG

\* C30: when at least one virus gene is detected, the call of call_well does
\* not depend on the control genes: every well-formed Cq of RNAse P, detected
\* or not, below or above its cutoff, and no entry at all, give the same
\* call, which is Positive, Indeterminate or Positive-needs-review.
C30_ControlGeneIrrelevantForPositive ==
    (op = "call_well" /\ ~NoVirusDetected) =>
        /\ result \in {POS, IND, POS_REVIEW}
        /\ \A g \in ControlGenes :
              /\ call_well(protocol, WithoutGene(values, g)) = result
              /\ \A v \in CqNumbers \cup NotDetected :
                    call_well(protocol, WithGene(values, g, v)) = result

\* C30 witness: a well with every virus gene called and RNAse P not detected
\* is Positive.
C30_Witness ==
    /\ op = "call_well"
    /\ AllVirusCalled
    /\ "RNAse P" \in DOMAIN values
    /\ ~Detected("RNAse P")
    /\ result = POS

(***************************************************************************)
(* The control wells written into the accession data of a plate.  An       *)
(* accession is a Python str, kept as the sequence of the code points of   *)
(* its characters; a cell of the plate layout that is a number is kept as  *)
(* a sequence that starts below every code point; a control type written   *)
(* by the update is the ControlType itself.                                *)
(***************************************************************************)
\* [a-zA-Z]
Letters == (65..90) \cup (97..122)

\* \d of a str pattern: the Unicode decimal digits (category Nd), as ranges of
\* code points; 48..57 are "0" to "9".
DigitRanges ==
    {<<48, 57>>, <<1632, 1641>>, <<1776, 1785>>, <<1984, 1993>>,
     <<2406, 2415>>, <<2534, 2543>>, <<2662, 2671>>, <<2790, 2799>>,
     <<2918, 2927>>, <<3046, 3055>>, <<3174, 3183>>, <<3302, 3311>>,
     <<3430, 3439>>, <<3558, 3567>>, <<3664, 3673>>, <<3792, 3801>>,
     <<3872, 3881>>, <<4160, 4169>>, <<4240, 4249>>, <<6112, 6121>>,
     <<6160, 6169>>, <<6470, 6479>>, <<6608, 6617>>, <<6784, 6793>>,
     <<6800, 6809>>, <<6992, 7001>>, <<7088, 7097>>, <<7232, 7241>>,
     <<7248, 7257>>, <<42528, 42537>>, <<43216, 43225>>, <<43264, 43273>>,
     <<43472, 43481>>, <<43504, 43513>>, <<43600, 43609>>,
     <<44016, 44025>>, <<65296, 65305>>, <<66720, 66729>>,
     <<68912, 68921>>, <<69734, 69743>>, <<69872, 69881>>,
     <<69942, 69951>>, <<70096, 70105>>, <<70384, 70393>>,
     <<70736, 70745>>, <<70864, 70873>>, <<71248, 71257>>,
     <<71360, 71369>>, <<71472, 71481>>, <<71904, 71913>>,
     <<72016, 72025>>, <<72784, 72793>>, <<73040, 73049>>,
     <<73120, 73129>>, <<92768, 92777>>, <<92864, 92873>>,
     <<93008, 93017>>, <<120782, 120831>>, <<123200, 123209>>,
     <<123632, 123641>>, <<125264, 125273>>, <<130032, 130041>>}
Digits == UNION {r[1]..r[2] : r \in DigitRanges}

\* The characters str.isspace() holds for: tab to carriage return, the
\* separators U+001C to U+001F, space, U+0085, U+00A0 and the Unicode spaces.
Whitespace ==
    (9..13) \cup (28..32) \cup {133, 160, 5760} \cup (8192..8202)
    \cup {8232, 8233, 8239, 8287, 12288}

\* "\n"
Newline == 10

\* str.rstrip(): the string without its trailing whitespace.
RECURSIVE rstrip(_)
rstrip(s) ==
    IF s # << >> /\ s[Len(s)] \in Whitespace
    THEN rstrip(SubSeq(s, 1, Len(s) - 1))
    ELSE s

\* \d{m,n}$ from position i of s: between m and n digits follow, up to the
\* end of the string or up to a newline that ends the string.
RECURSIVE match_digits(_, _, _, _)
match_digits(s, i, m, n) ==
    IF i > Len(s) THEN m <= 0
    ELSE \/ /\ m <= 0
            /\ i = Len(s)
            /\ s[i] = Newline
         \/ /\ n > 0
            /\ s[i] \in Digits
            /\ match_digits(s, i + 1, m - 1, n - 1)

\* re.match(VALID_ACCESSION, s), VALID_ACCESSION = r"^[a-zA-Z]\d{4,5}$"
match_VALID_ACCESSION(s) ==
    /\ s # << >>
    /\ s[1] \in Letters
    /\ match_digits(s, 2, 4, 5)

\* accession_data.update(control_wells)
dict_update(ad, cw) ==
    [w \in DOMAIN ad \cup DOMAIN cw |-> IF w \in DOMAIN cw THEN cw[w] ELSE ad[w]]

\* A cell that pandas.read_excel hands on as a number (a float or an int):
\* parse_legacy_accession_data stores the cell as it is, and only an empty
\* cell becomes the str "".
number_cell(n) == <<-1, n>>

\* isinstance(v, str), for the entries of the accession data: a number has no
\* rstrip attribute.
is_str(v) == v = << >> \/ v[1] >= 0

\* Python None where a dict of control wells is expected, the value
\* get_control_wells_from_type returns when controls_type is none of
\* Standard, Validation, NoControls and Custom (falling off the end of the
\* function): a value apart from every dict, <<0, 0>> being no well.
NoneDict == [w \in {<<0, 0>>} |-> "None"]

\* Every order of the elements of S.
Orders(S) ==
    {s \in [1..Cardinality(S) -> S] :
        \A i, j \in 1..Cardinality(S) : i # j => s[i] # s[j]}

\* list(control_wells.keys()): the wells in the order they were inserted in,
\* which a mapping from wells to control types does not tell, so every order
\* of the wells.  None has no keys.
control_keys(cw) == IF cw = NoneDict THEN {<< >>} ELSE Orders(DOMAIN cw)

\* The loop of update_accession_data_with_controls over the wells of keys:
\* the exception of the first well that raises, "none" when the loop ends.
\* accession_data[well].rstrip() raises AttributeError on an entry that is no
\* str, and the ValueError is raised on a match of VALID_ACCESSION.
RECURSIVE check_control_wells(_, _)
check_control_wells(ad, keys) ==
    IF keys = << >> THEN "none"
    ELSE LET well == Head(keys)
         IN  IF well \notin DOMAIN ad THEN check_control_wells(ad, Tail(keys))
             ELSE IF ~is_str(ad[well]) THEN "AttributeError"
             ELSE IF match_VALID_ACCESSION(rstrip(ad[well])) THEN "ValueError"
             ELSE check_control_wells(ad, Tail(keys))

\* update_accession_data_with_controls, keys being list(control_wells.keys()):
\* the exception raised ("none" when it returns) and accession_data as the
\* call leaves it.  control_wells.keys() raises AttributeError when
\* control_wells is None; the loop only checks, and the update follows it.
update_accession_data_with_controls(cw, ad, keys) ==
    IF cw = NoneDict
    THEN [raised |-> "AttributeError", accession_data |-> ad]
    ELSE IF check_control_wells(ad, keys) # "none"
    THEN [raised |-> check_control_wells(ad, keys), accession_data |-> ad]
    ELSE [raised |-> "none", accession_data |-> dict_update(ad, cw)]

\* Entries of the accession data:
\*   "X4739", "x47399"          accessions of five and of six characters
\*   "X47399 \n", "X4739 ", "X4739\f"
\*                              accessions followed by whitespace
\*   " X4739"                   an accession after a space
\*   "X473", "X473999", "47399" too few digits, too many digits, no letter
\*   "X4739\n\n7"               an accession followed by more than whitespace
\*   "PC"                       a control name
\*   ""                         an empty cell
AccessionStrings ==
    {<<88, 52, 55, 51, 57>>,
     <<120, 52, 55, 51, 57, 57>>,
     <<88, 52, 55, 51, 57, 57, 32, 10>>,
     <<88, 52, 55, 51, 57, 160>>,
     <<88, 52, 55, 51, 57, 12>>,
     <<32, 88, 52, 55, 51, 57>>,
     <<88, 52, 55, 51>>,
     <<88, 52, 55, 51, 57, 57, 57>>,
     <<52, 55, 51, 57, 57>>,
     <<88, 52, 55, 51, 57, 10, 10, 55>>,
     <<80, 67>>,
     << >>}

\* The cells of a plate layout: strings, and the number 47399 of a cell that
\* holds digits only.
AccessionCells == AccessionStrings \cup {number_cell(47399)}

\* A1, A8 and H9 are control wells of the standard layout.
AccessionWells == {<<1, 1>>, <<1, 8>>, <<8, 9>>}

\* accession_data as get_accession_data_with_rerun returns it.
AccessionMaps == UNION {[S -> AccessionCells] : S \in SUBSET AccessionWells}

\* The dicts get_control_wells_from_type returns: some of the wells of the
\* plate, each with a control type.
ControlWellMaps(wells) == UNION {[S -> ControlType] : S \in SUBSET wells}

\* What get_control_wells_from_type returns: a dict of control wells, or
\* None when no branch of it matches controls_type, which is None when the
\* sample plate has no metadata row.
ControlWells(wells) == ControlWellMaps(wells) \cup {NoneDict}

InitAccession ==
    /\ protocol = SOP_V2
    /\ accession_data \in AccessionMaps
    /\ accession_before = accession_data
    /\ control_wells \in ControlWells(AccessionWells)
    /\ data = << >>
    /\ ClassIdle
    /\ ScanIdle
    /\ DriveIdle

\* update_accession_data_with_controls(control_wells, accession_data, barcode)
UpdateAccessionDataWithControls ==
    /\ op = "none"
    /\ \E keys \in control_keys(control_wells) :
          \E out \in {update_accession_data_with_controls(control_wells,
                                                          accession_data, keys)} :
              /\ accession_data' = out.accession_data
              /\ result' = out.raised
    /\ op' = "update_accession_data_with_controls"
    /\ UNCHANGED <<protocol, values, key_order, arg_gene, arg_type, arg_name,
                   scanVars, data, control_wells, accession_before, driveVars>>

NextAccession == UpdateAccessionDataWithControls

SpecAccession == InitAccession /\ [][NextAccession]_vars

\* The claim's words for a valid accession: a string that is a letter
\* followed by four or five digits, followed by whitespace only.
ValidAccession(s) ==
    /\ is_str(s)
    /\ \E n \in {5, 6} :
          /\ Len(s) >= n
          /\ s[1] \in Letters
          /\ \A i \in 2..n : s[i] \in Digits
          /\ \A i \in (n + 1)..Len(s) : s[i] \in Whitespace

\* The control wells the call was given; None holds none.
GivenControlWells ==
    IF control_wells = NoneDict THEN {} ELSE DOMAIN control_wells

OverwritesValidAccession ==
    \E w \in GivenControlWells :
        w \in DOMAIN accession_before /\ ValidAccession(accession_before[w])

\* C28: update_accession_data_with_controls never overwrites a valid
\* accession: when a control well maps to a valid accession (a letter and four
\* or five digits, trailing whitespace ignored) it raises ValueError and
\* accession_data is as it was; otherwise it returns, every control well maps
\* to its control type and every other well keeps its accession.  The code
\* departs from it: with control_wells None, and with a control well whose
\* entry is a number, it raises AttributeError and no control well is set.
C28_ValidAccessionNeverOverwritten ==
    op = "update_accession_data_with_controls" =>
        IF OverwritesValidAccession
        THEN /\ result = "ValueError"
             /\ accession_data = accession_before
        ELSE /\ result = "none"
             /\ DOMAIN accession_data = DOMAIN accession_before \cup GivenControlWells
             /\ \A w \in GivenControlWells : accession_data[w] = control_wells[w]
             /\ \A w \in DOMAIN accession_before \ GivenControlWells :
                   accession_data[w] = accession_before[w]

(***************************************************************************)
(* A plate from the instrument data to the flagged results, as             *)
(* process_barcode goes: local_processing and the accessions of the plate  *)
(* layout, then flag_contamination as from_results_data calls it, then     *)
(* flag_contamination once more on the plate it produced.                  *)
(***************************************************************************)
\* local_processing with every well classified as a sample well.
local_processing_all_samples(p, d, cw) ==
    [well \in DOMAIN d |->
        WellResults("MISSING", call_well(p, d[well]), d[well], "None")]

\* local_processing: the results mapping; a control well is classified by
\* check_control with its control type, any other well by call_well with
\* control_type None.
local_processing(p, d, cw) ==
    [well \in DOMAIN d |->
        IF well \in DOMAIN cw
        THEN WellResults("MISSING", check_control(p, d[well], cw[well]), d[well],
                         cw[well])
        ELSE WellResults("MISSING", call_well(p, d[well]), d[well], "None")]

\* The exception local_processing ends in: the one of the first well, in the
\* order of the loop, whose classification raises; "none" when none does.
local_processing_raise(results) ==
    LET wells == RowMajor(DOMAIN results)
    IN  FirstRaise([i \in 1..Len(wells) |-> results[wells[i]].call])

\* accession.add_accession_barcodes_to_results: every well gets the entry of
\* accession_data for it, the empty string when there is none.
add_accession_barcodes_to_results(results, ad) ==
    [well_id \in DOMAIN results |->
        [results[well_id] EXCEPT
            !.accession = IF well_id \in DOMAIN ad THEN ad[well_id] ELSE << >>]]

\* Cq values of one well after map_384_to_96: every gene of the protocol, the
\* virus genes not detected, strong or weak, the control gene not detected
\* or detected.
PlateVirusCq == {NaN, Num(5), Num(39)}
PlateControlCq == {NaN, Num(30)}
PlateValues(p) ==
    {vals \in [DOMAIN gene_cutoffs(p) -> PlateVirusCq \cup PlateControlCq] :
        /\ \A g \in DOMAIN virus_genes(p) : vals[g] \in PlateVirusCq
        /\ \A g \in DOMAIN control_genes(p) : vals[g] \in PlateControlCq}

\* The second well is next to the first or three columns away.
PlateSecondWells == {<<1, 2>>, <<1, 4>>}

\* The accession data of the plate layout: none at all, or the accession
\* "X4739" in every well that is no control well.
PlateLayouts(wells) == {<< >>, [w \in wells |-> <<88, 52, 55, 51, 57>>]}

\* The arguments of process_barcode: accession_data is the plate layout
\* after update_accession_data_with_controls has written the control wells.
InitPlate ==
    /\ protocol \in Protocols
    /\ \E second \in PlateSecondWells :
          /\ data \in [{<<1, 1>>, second} -> PlateValues(protocol)]
          /\ control_wells \in ControlWellMaps({<<1, 1>>, second})
    /\ accession_before \in PlateLayouts(DOMAIN data \ DOMAIN control_wells)
    /\ accession_data =
          update_accession_data_with_controls(
              control_wells, accession_before,
              RowMajor(DOMAIN control_wells)).accession_data
    /\ order = RowMajor(DOMAIN data)
    /\ well_mapping = << >>
    /\ before = << >>
    /\ after_first = << >>
    /\ phase = "data"
    /\ arg_cutoff = 0
    /\ arg_radius = 0
    /\ arg_flag = "none"
    /\ ClassIdle
    /\ DriveIdle

\* process_barcode up to the call of from_results_data:
\* results = local_processing(qPCR_data.data, control_wells, protocol), and
\* add_accession_barcodes_to_results(results, accession_data) when
\* accession_data is not empty.
LocalProcessing ==
    /\ phase = "data"
    /\ \E called \in {local_processing(protocol, data, control_wells)} :
          IF local_processing_raise(called) # "none"
          THEN /\ result' = local_processing_raise(called)
               /\ phase' = "raised"
               /\ UNCHANGED <<well_mapping, before, after_first>>
          ELSE /\ well_mapping' =
                     IF accession_data # << >>
                     THEN add_accession_barcodes_to_results(called, accession_data)
                     ELSE called
               /\ before' = well_mapping'
               /\ after_first' = well_mapping'
               /\ phase' = "start"
               /\ UNCHANGED result
    /\ UNCHANGED <<protocol, values, key_order, op, arg_gene, arg_type, arg_name,
                   order,
                   arg_cutoff, arg_radius, arg_flag, plateVars, driveVars>>

\* protocol.flag_contamination(well_mapping) called again on the mapping the
\* first call has just left.
FlagContaminationAgain ==
    /\ phase = "done"
    /\ data # << >>
    /\ LET passes == flag_contamination(protocol, well_mapping, order)
       IN  /\ after_first' = passes[1]
           /\ well_mapping' = passes[Len(passes)]
    /\ before' = well_mapping
    /\ phase' = "again"
    /\ UNCHANGED <<order, arg_cutoff, arg_radius, arg_flag, classVars,
                   plateVars, driveVars>>

NextPlate ==
    \/ LocalProcessing
    \/ FlagContamination
    \/ V3FlagContamination
    \/ FlagContaminationAgain

SpecPlate == InitPlate /\ [][NextPlate]_vars

(***************************************************************************)
(* Claims about a whole plate.                                             *)
(***************************************************************************)
SampleCalls == {POS, POS_REVIEW, POS_CLUSTER, POS_HOTWELL, NEG, INV, IND}

\* C24: after local_processing followed by flag_contamination, every well
\* listed in control_wells has its control type recorded and a call of Pass
\* or Fail, and every other well has control_type None and one of the seven
\* sample calls.
C24_PassFailOnlyOnControls ==
    (data # << >> /\ phase = "done") =>
        \A w \in DOMAIN well_mapping :
            IF w \in DOMAIN control_wells
            THEN /\ well_mapping[w].control_type = control_wells[w]
                 /\ well_mapping[w].call \in {PASS, FAIL}
            ELSE /\ well_mapping[w].control_type = "None"
                 /\ well_mapping[w].call \in SampleCalls

\* A plate with a failing positive control next to a sample well that the
\* scan escalated is reached.
C24_Witness ==
    /\ data # << >>
    /\ phase = "done"
    /\ DOMAIN control_wells = {<<1, 2>>}
    /\ control_wells[<<1, 2>>] = PC
    /\ well_mapping[<<1, 2>>].call = FAIL
    /\ well_mapping[<<1, 1>>].call = POS_CLUSTER

\* One well stands in the other's square of the given radius and the other
\* well's Cq values make compare_wells true for it.
EscalatedOnAccountOf(w, o, r, cutoff) ==
    /\ o # w
    /\ Within(w, o, r)
    /\ compare_wells(protocol, before[w], before[o], cutoff)

\* C26: a candidate is escalated only on account of a neighbour whose own call
\* is positive: every well whose call flag_contamination changed has, in one
\* of the squares the protocol scans, a well with a positive call that it is
\* weaker than by the cutoff of that square.
C26_EscalatedOnlyByPositiveNeighbour ==
    (data # << >> /\ phase = "done") =>
        \A w \in DOMAIN well_mapping :
            well_mapping[w].call # before[w].call =>
                \E o \in DOMAIN well_mapping :
                    /\ is_positive(before[o].call)
                    /\ \/ EscalatedOnAccountOf(w, o, radius(protocol),
                                               pos_cluster_cutoff(protocol))
                       \/ /\ protocol = SOP_V3
                          /\ EscalatedOnAccountOf(w, o, hot_well_radius(protocol),
                                                  hot_well_cutoff(protocol))

\* C29: flag_contamination run a second time on the plate it has just produced
\* changes no call; escalation keeps a well a candidate (is_positive before
\* a run is is_positive after it and between its passes); and the only call
\* the second run rewrites between its passes is, under SOP-V3, a
\* Positive-by-cluster that the hot-well pass turns into Positive-by-hot-well
\* and the cluster pass turns back.
C29_SecondRunChangesNothing ==
    (data # << >> /\ phase \in {"done", "again"}) =>
        \A w \in DOMAIN well_mapping :
            /\ is_positive(before[w].call) = is_positive(after_first[w].call)
            /\ is_positive(before[w].call) = is_positive(well_mapping[w].call)
            /\ phase = "again" =>
                  /\ well_mapping[w].call = before[w].call
                  /\ after_first[w].call # before[w].call =>
                        /\ protocol = SOP_V3
                        /\ before[w].call = POS_CLUSTER
                        /\ after_first[w].call = POS_HOTWELL

\* The second run on a SOP-V3 plate rewrites a Positive-by-cluster well to
\* Positive-by-hot-well in its first pass and restores it in its second.
C29_Witness ==
    /\ data # << >>
    /\ phase = "again"
    /\ protocol = SOP_V3
    /\ \E w \in DOMAIN well_mapping :
          /\ before[w].call = POS_CLUSTER
          /\ after_first[w].call = POS_HOTWELL
          /\ well_mapping[w].call = POS_CLUSTER

(***************************************************************************)
(* The Drive processing loop: each run reads the markers folder and the    *)
(* logs folder, then goes through the barcodes that have no marker.        *)
(***************************************************************************)
\* The runs a behaviour goes through.
MaxRuns == 2

Barcodes == {"B1", "B2", "B3"}

\* The try block with the marker file written before the email is sent.
try_steps_marker_before_email ==
    <<"load_from_spreadsheet", "get_protocol", "quant_amp", "process_barcode",
      "write_results", "write_cb_report", "final_pdf", "write_marker_file",
      "send_email">>

\* The statements of the try block of the loop body, in program order:
\* metadata, protocol, the quant amp files of the protocol, accession data
\* with controls and process_barcode, the results CSV, the CB report, the
\* PDF, the email and, last, the marker file.
try_steps ==
    <<"load_from_spreadsheet", "get_protocol", "quant_amp", "process_barcode",
      "write_results", "write_cb_report", "final_pdf", "send_email",
      "write_marker_file">>

\* The statements that leave the iteration with `continue`: no protocol in
\* the metadata, and quant amp files missing for the protocol.
continue_steps == {"load_from_spreadsheet", "quant_amp"}

InitDrive ==
    /\ protocol = SOP_V2
    /\ marker_folder \in SUBSET Barcodes
    /\ barcode_files \in [Barcodes -> BOOLEAN]
    /\ completed_barcodes = {}
    /\ run = 0
    /\ barcodes_to_process = {}
    /\ barcode = "none"
    /\ step = 0
    /\ done_steps = {}
    /\ visited = {}
    /\ failed = {}
    /\ marker_steps = << >>
    /\ well_mapping = << >>
    /\ order = << >>
    /\ phase = "idle"
    /\ before = << >>
    /\ after_first = << >>
    /\ arg_cutoff = 0
    /\ arg_radius = 0
    /\ arg_flag = "none"
    /\ ClassIdle
    /\ PlateIdle

\* processing(): the markers folder is read into completed_barcodes and the
\* log entries are grouped by barcode, those of a completed barcode left out.
StartRun ==
    /\ phase = "idle"
    /\ run < MaxRuns
    /\ run' = run + 1
    /\ completed_barcodes' = marker_folder
    /\ barcodes_to_process' = {b \in DOMAIN barcode_files : b \notin marker_folder}
    /\ visited' = {}
    /\ phase' = "loop"
    /\ UNCHANGED <<marker_folder, barcode_files, barcode, step, done_steps,
                   failed, marker_steps, classVars, well_mapping, order, before,
                   after_first, arg_cutoff, arg_radius, arg_flag, plateVars>>

\* if not barcode_files.all_files: ... continue
SkipMissingFiles ==
    /\ phase = "loop"
    /\ barcode = "none"
    /\ \E b \in barcodes_to_process :
          /\ ~barcode_files[b]
          /\ barcodes_to_process' = barcodes_to_process \ {b}
          /\ visited' = visited \cup {b}
          /\ failed' = failed \cup {b}
    /\ UNCHANGED <<marker_folder, completed_barcodes, barcode_files, run,
                   barcode, step, done_steps, marker_steps, classVars, scanVars,
                   plateVars>>

\* The loop reaches a barcode with all its files and enters the try block.
EnterTry ==
    /\ phase = "loop"
    /\ barcode = "none"
    /\ \E b \in barcodes_to_process :
          /\ barcode_files[b]
          /\ barcodes_to_process' = barcodes_to_process \ {b}
          /\ visited' = visited \cup {b}
          /\ failed' = failed \ {b}
          /\ barcode' = b
    /\ step' = 1
    /\ done_steps' = {}
    /\ UNCHANGED <<marker_folder, completed_barcodes, barcode_files, run,
                   marker_steps, classVars, scanVars, plateVars>>

\* The next statement of the try block completes; write_marker_file puts a
\* file named after the barcode into the markers folder.
StepCompletes ==
    /\ barcode # "none"
    /\ LET s == try_steps[step]
       IN  /\ done_steps' = done_steps \cup {s}
           /\ IF s = "write_marker_file"
              THEN /\ marker_folder' = marker_folder \cup {barcode}
                   /\ marker_steps' =
                         (barcode :> (done_steps \cup {s})) @@ marker_steps
              ELSE UNCHANGED <<marker_folder, marker_steps>>
    /\ IF step = Len(try_steps)
       THEN /\ barcode' = "none"
            /\ step' = 0
       ELSE /\ step' = step + 1
            /\ UNCHANGED barcode
    /\ UNCHANGED <<completed_barcodes, barcode_files, run, barcodes_to_process,
                   visited, failed, classVars, scanVars, plateVars>>

\* The next statement of the try block raises: except Exception logs the
\* error and the loop goes on with the next barcode.
StepRaises ==
    /\ barcode # "none"
    /\ failed' = failed \cup {barcode}
    /\ barcode' = "none"
    /\ step' = 0
    /\ result' = "Exception"
    /\ UNCHANGED <<marker_folder, completed_barcodes, barcode_files, run,
                   barcodes_to_process, done_steps, visited, marker_steps,
                   protocol, values, key_order, op, arg_gene, arg_type,
                   arg_name, scanVars,
                   plateVars>>

\* The metadata names no protocol, or quant amp files of the protocol are
\* missing: the iteration ends with continue.
StepContinues ==
    /\ barcode # "none"
    /\ try_steps[step] \in continue_steps
    /\ failed' = failed \cup {barcode}
    /\ barcode' = "none"
    /\ step' = 0
    /\ result' = "continue"
    /\ UNCHANGED <<marker_folder, completed_barcodes, barcode_files, run,
                   barcodes_to_process, done_steps, visited, marker_steps,
                   protocol, values, key_order, op, arg_gene, arg_type,
                   arg_name, scanVars,
                   plateVars>>

\* The loop has gone through barcodes_to_process and processing() returns.
EndRun ==
    /\ phase = "loop"
    /\ barcode = "none"
    /\ barcodes_to_process = {}
    /\ phase' = "idle"
    /\ UNCHANGED <<driveVars, classVars, well_mapping, order, before,
                   after_first, arg_cutoff, arg_radius, arg_flag, plateVars>>

\* Between two runs the missing log files of a barcode reach the logs folder.
FilesArrive ==
    /\ phase = "idle"
    /\ \E b \in DOMAIN barcode_files :
          /\ ~barcode_files[b]
          /\ barcode_files' = [barcode_files EXCEPT ![b] = TRUE]
    /\ UNCHANGED <<marker_folder, completed_barcodes, run, barcodes_to_process,
                   barcode, step, done_steps, visited, failed, marker_steps,
                   classVars, scanVars, plateVars>>

NextDrive ==
    \/ StartRun
    \/ SkipMissingFiles
    \/ EnterTry
    \/ StepCompletes
    \/ StepRaises
    \/ StepContinues
    \/ EndRun
    \/ FilesArrive

SpecDrive == InitDrive /\ [][NextDrive]_vars

\* The outputs the marker stands for.
ReportSteps == {"write_results", "write_cb_report", "final_pdf", "send_email"}

\* C27: in a run, only barcodes without a marker at the start of the run are
\* processed; a marker written in the run was written after the results CSV,
\* the CB report, the PDF and the email of that run had completed; a barcode
\* whose processing failed or whose files were incomplete has no marker and
\* is among the barcodes of the next run.
C27_MarkerOnlyAfterAllOutputs ==
    run >= 1 =>
        /\ visited \cap completed_barcodes = {}
        /\ barcode # "none" => barcode \in visited
        /\ \A b \in marker_folder \ completed_barcodes :
              /\ b \in visited \ failed
              /\ b \in DOMAIN marker_steps
              /\ ReportSteps \subseteq marker_steps[b]
        /\ failed \cap marker_folder = {}
        /\ phase = "loop" =>
              /\ failed \subseteq visited \cup barcodes_to_process
              /\ visited \cup barcodes_to_process =
                    DOMAIN barcode_files \ completed_barcodes

\* In the second run a barcode that failed in the first run is waiting to be
\* processed, while another barcode has got its marker in this run after its
\* email was sent.
C27_Witness ==
    /\ run = 2
    /\ phase = "loop"
    /\ \E b \in failed \cap barcodes_to_process : barcode_files[b]
    /\ \E b \in marker_folder \ completed_barcodes :
          "send_email" \in marker_steps[b]

====
